---- MODULE Spec2Model ----
(***************************************************************************)
(* Timple: timedelta locators and the timedelta format engine              *)
(* (src/timple/timedelta.py).                                              *)
(*                                                                         *)
(* Day counts are floats in the source.  Here every day count and every    *)
(* datetime.timedelta is the exact value, held in the normal form of       *)
(* datetime.timedelta: [days, seconds, microseconds] with                  *)
(* 0 <= seconds < 86400 and 0 <= microseconds < 10^6 (days carries the     *)
(* sign).  Float rounding is not modelled.                                 *)
(***************************************************************************)
EXTENDS Integers, Sequences, FiniteSets, TLC

VARIABLES
    intervald,   \* AutoTimedeltaLocator.intervald: unit -> list of intervals
    maxticks,    \* AutoTimedeltaLocator.maxticks: unit -> max tick target
    minticks,    \* AutoTimedeltaLocator.minticks
    freq,        \* AutoTimedeltaLocator._freq: the length of one unit, in days
    located,     \* the base unit the last locate call chose ("none" before)
    fixed,       \* the FixedTimedeltaLocator under construction / constructed
    formatter,   \* the TimedeltaFormatter under construction / constructed
    axis,        \* the axis set on the formatter, with its intervals
    concise,     \* the ConciseTimedeltaFormatter
    autofmt,     \* the AutoTimedeltaFormatter
    converter,   \* the TimedeltaConverter / ConciseTimedeltaConverter
    host,        \* matplotlib: units._is_natively_supported, units.registry,
                 \* dates.date2num
    timple,      \* the Timple instance
    op,          \* the operation that ran last
    arg,         \* its input
    ret          \* what it returned or raised

vars ==
    <<intervald, maxticks, minticks, freq, located, fixed, formatter, axis,
      concise, autofmt, converter, host, timple, op, arg, ret>>

autoVars == <<intervald, maxticks, minticks, freq, located>>

fmtVars == <<formatter, axis, concise>>

extVars == <<autofmt, converter, host, timple>>

(***************************************************************************)
(* Time-related constants.                                                 *)
(***************************************************************************)
HOURS_PER_DAY == 24
MIN_PER_HOUR == 60
SEC_PER_MIN == 60
MINUTES_PER_DAY == MIN_PER_HOUR * HOURS_PER_DAY
SEC_PER_HOUR == SEC_PER_MIN * MIN_PER_HOUR
SEC_PER_DAY == SEC_PER_HOUR * HOURS_PER_DAY
\* MUSECONDS_PER_DAY = 1e6 * SEC_PER_DAY does not fit a 32-bit integer: the
\* model keeps its two factors, 1e6 and SEC_PER_DAY, apart.
MUSECONDS_PER_SEC == 1000000

(***************************************************************************)
(* Bounds of the model.                                                    *)
(***************************************************************************)
MaxSpanDays == 30
MaxSpanHours == 30
MaxSpanMinutes == 20
MaxSpanSeconds == 20
MaxSpanMicros == 20
MaxMinTicks == 1
MaxFixedInterval == 12
MaxFmtDays == 2
MaxFmtLen == 4
\* seconds from which a microsecond count saturates (keeps 32-bit integers)
MaxNormSeconds == 2000

(***************************************************************************)
(* datetime.timedelta values.                                              *)
(***************************************************************************)
Td(d, s, us) ==
    LET s2 == s + (us \div MUSECONDS_PER_SEC)
        u2 == us % MUSECONDS_PER_SEC
        d2 == d + (s2 \div SEC_PER_DAY)
        s3 == s2 % SEC_PER_DAY
    IN  [days |-> d2, seconds |-> s3, microseconds |-> u2]

TdAdd(a, b) ==
    Td(a.days + b.days, a.seconds + b.seconds, a.microseconds + b.microseconds)

TdSub(a, b) ==
    Td(a.days - b.days, a.seconds - b.seconds, a.microseconds - b.microseconds)

TdNeg(a) == Td(-a.days, -a.seconds, -a.microseconds)

TdLess(a, b) ==
    \/ a.days < b.days
    \/ a.days = b.days /\ a.seconds < b.seconds
    \/ a.days = b.days /\ a.seconds = b.seconds /\ a.microseconds < b.microseconds

TdIsNeg(a) == a.days < 0

TdAbs(a) == IF TdIsNeg(a) THEN TdNeg(a) ELSE a

TdScale(k, a) == Td(k * a.days, k * a.seconds, k * a.microseconds)

Zero == Td(0, 0, 0)
OneDay == Td(1, 0, 0)
TwoDays == Td(2, 0, 0)

(***************************************************************************)
(* TimedeltaLocator: base units and factors.                               *)
(***************************************************************************)
base_units == <<"days", "hours", "minutes", "seconds", "microseconds">>

BaseUnitSet == {base_units[i] : i \in 1..Len(base_units)}

\* 1 / base_factors[base] days: the length of one unit of base.
UnitLen(base) ==
    CASE base = "days" -> Td(1, 0, 0)
      [] base = "hours" -> Td(0, SEC_PER_HOUR, 0)
      [] base = "minutes" -> Td(0, SEC_PER_MIN, 0)
      [] base = "seconds" -> Td(0, 1, 0)
      [] base = "microseconds" -> Td(0, 0, 1)

\* floor(tdelta * base_factors[base]) for tdelta >= 0: the whole units of base
\* in tdelta.  Both uses of tdelta * factor in the locator compare it with an
\* integer (>= minticks) or floor-divide it by an integer (// interval), which
\* the floor decides.  The microsecond count saturates at MaxNormSeconds
\* seconds, above every value it is compared with.
NormDelta(tdelta, base) ==
    LET secs == tdelta.days * SEC_PER_DAY + tdelta.seconds
    IN  CASE base = "days" -> tdelta.days
          [] base = "hours" ->
                tdelta.days * HOURS_PER_DAY + (tdelta.seconds \div SEC_PER_HOUR)
          [] base = "minutes" ->
                tdelta.days * MINUTES_PER_DAY + (tdelta.seconds \div SEC_PER_MIN)
          [] base = "seconds" -> secs
          [] base = "microseconds" ->
                IF secs >= MaxNormSeconds
                THEN MaxNormSeconds * MUSECONDS_PER_SEC
                ELSE secs * MUSECONDS_PER_SEC + tdelta.microseconds

(***************************************************************************)
(* Duration codec, timedelta direction.                                    *)
(***************************************************************************)
\* _td64_to_ordinalf on one timedelta64[us] value: whole seconds and the
\* sub-second remainder (in ns) are converted apart, summed and divided by
\* SEC_PER_DAY.  The day count is returned in [days, seconds, microseconds].
Td64ToOrdinalf(d) ==
    LET dseconds == d.days * SEC_PER_DAY + d.seconds
        extra == d.microseconds * 1000
    IN  [days |-> dseconds \div SEC_PER_DAY,
         seconds |-> dseconds % SEC_PER_DAY,
         microseconds |-> extra \div 1000]

\* timedelta2num on a scalar datetime.timedelta.
Timedelta2num(t) == Td64ToOrdinalf(t)

(***************************************************************************)
(* Axis coordinates as the locators receive them: finite day counts, or    *)
(* one of the non-finite floats.                                           *)
(***************************************************************************)
Fin(v) == [kind |-> "finite", val |-> v]
NaN == [kind |-> "nan", val |-> Zero]
Inf == [kind |-> "inf", val |-> Zero]

isfinite(x) == x.kind = "finite"

(***************************************************************************)
(* AutoTimedeltaLocator.                                                   *)
(***************************************************************************)
DefaultIntervald ==
    [u \in BaseUnitSet |->
        CASE u = "days" ->
                <<1, 2, 5, 10, 20, 25, 50, 100, 200, 500, 1000, 2000,
                  5000, 10000, 20000, 50000, 100000, 200000, 500000,
                  1000000>>
          [] u = "hours" -> <<1, 2, 3, 4, 6, 8, 12>>
          [] u = "minutes" -> <<1, 2, 3, 5, 10, 15, 20, 30>>
          [] u = "seconds" -> <<1, 2, 3, 5, 10, 15, 20, 30>>
          [] u = "microseconds" ->
                <<1, 2, 5, 10, 20, 50, 100, 200, 500, 1000, 2000,
                  5000, 10000, 20000, 50000, 100000, 200000, 500000,
                  1000000>>]

DefaultMaxticks ==
    [u \in BaseUnitSet |->
        CASE u = "days" -> 11
          [] u = "hours" -> 12
          [] u = "minutes" -> 11
          [] u = "seconds" -> 11
          [] u = "microseconds" -> 8]

DefaultMinticks == 5

\* _get_base: the for loop rebinds base on every iteration, so the 'days'
\* assigned before the loop survives only if base_units is empty; on
\* exhaustion base is the last unit visited.
RECURSIVE GetBaseFrom(_, _, _)
GetBaseFrom(i, tdelta, mt) ==
    IF NormDelta(tdelta, base_units[i]) >= mt
    THEN base_units[i]
    ELSE IF i = Len(base_units)
         THEN base_units[i]
         ELSE GetBaseFrom(i + 1, tdelta, mt)

GetBase(tdelta, mt) ==
    IF Len(base_units) = 0 THEN "days" ELSE GetBaseFrom(1, tdelta, mt)

\* the interval list as it was at construction
BaseIntervalsAtInit(tbl, base) == DefaultIntervald[base]

\* self.intervald[base], read inside _get_interval_for_base
BaseIntervals(tbl, base) == tbl[base]

\* _get_interval_for_base: first interval with
\* norm_delta // interval <= maxticks[base]; on exhaustion the loop variable
\* keeps the last entry; 1 for an empty list.
RECURSIVE IntervalFrom(_, _, _, _)
IntervalFrom(i, L, norm_delta, m) ==
    IF i > Len(L)
    THEN IF Len(L) = 0 THEN 1 ELSE L[Len(L)]
    ELSE IF (norm_delta \div L[i]) <= m
         THEN L[i]
         ELSE IntervalFrom(i + 1, L, norm_delta, m)

SeqMax(L) == CHOOSE x \in {L[i] : i \in 1..Len(L)} : \A j \in 1..Len(L) : L[j] <= x

\* the largest listed interval on exhaustion, instead of the last one
GetIntervalForBaseLargest(norm_delta, base, tbl, mx) ==
    IF \E i \in 1..Len(tbl[base]) : (norm_delta \div tbl[base][i]) <= mx[base]
    THEN IntervalFrom(1, tbl[base], norm_delta, mx[base])
    ELSE SeqMax(tbl[base])

\* the largest interval while the smallest fits maxticks[base], the
\* smallest once it does not
GetIntervalForBaseInverted(norm_delta, base, tbl, mx) ==
    IF Len(tbl[base]) = 0 THEN 1
    ELSE IF (norm_delta \div tbl[base][1]) <= mx[base]
         THEN tbl[base][Len(tbl[base])]
         ELSE tbl[base][1]

GetIntervalForBase(norm_delta, base, tbl, mx) ==
    IntervalFrom(1, BaseIntervals(tbl, base), norm_delta, mx[base])

\* _freq left at its initial value
LocatorForBaseKeepFreq(tdelta, base, tbl, mx) ==
    [tdelta |-> tdelta,
     base |-> base,
     freq |-> OneDay,
     interval |-> GetIntervalForBase(NormDelta(tdelta, base), base, tbl, mx)]

\* get_locator up to _create_locator: the absolute difference, the base, the
\* new _freq and the interval.
LocatorForBase(tdelta, base, tbl, mx) ==
    [tdelta |-> tdelta,
     base |-> base,
     freq |-> UnitLen(base),
     interval |-> GetIntervalForBase(NormDelta(tdelta, base), base, tbl, mx)]

LocatorForDelta(tdelta, mt, tbl, mx) ==
    LocatorForBase(tdelta, GetBase(tdelta, mt), tbl, mx)

GetLocator(vmin, vmax, mt, tbl, mx) ==
    LocatorForDelta(
        Timedelta2num(IF TdLess(vmax, vmin)
                      THEN TdNeg(TdSub(vmax, vmin))
                      ELSE TdSub(vmax, vmin)),
        mt, tbl, mx)

\* viewlim_to_td: the view interval, ordered.
ViewlimToTd(view) ==
    IF TdLess(view[2], view[1]) THEN <<view[2], view[1]>> ELSE view

\* TimedeltaLocator._get_interval, which AutoTimedeltaLocator inherits
GetInterval == 1

\* TimedeltaLocator.nonsingular, which AutoTimedeltaLocator overrides: the
\* padding is 2 * unit * interval (widths below 1e-6 day)
BaseNonsingular(vmin, vmax) ==
    IF ~isfinite(vmin) \/ ~isfinite(vmax)
    THEN <<Timedelta2num(OneDay), Timedelta2num(TwoDays)>>
    ELSE LET lo == IF TdLess(vmax.val, vmin.val) THEN vmax.val ELSE vmin.val
             hi == IF TdLess(vmax.val, vmin.val) THEN vmin.val ELSE vmax.val
             pad == TdScale(2 * GetInterval, freq)
         IN  IF TdLess(TdSub(hi, lo), Td(0, 0, 86400))
             THEN <<TdSub(lo, pad), TdAdd(hi, pad)>>
             ELSE <<lo, hi>>

\* AutoTimedeltaLocator.nonsingular
AutoNonsingular(vmin, vmax) ==
    IF ~isfinite(vmin) \/ ~isfinite(vmax)
    THEN <<Timedelta2num(OneDay), Timedelta2num(TwoDays)>>
    ELSE LET lo == IF TdLess(vmax.val, vmin.val) THEN vmax.val ELSE vmin.val
             hi == IF TdLess(vmax.val, vmin.val) THEN vmin.val ELSE vmax.val
         IN  IF lo = hi
             THEN <<TdSub(lo, TwoDays), TdAdd(hi, TwoDays)>>
             ELSE <<lo, hi>>

\* ConciseTimedeltaFormatter._levels
Levels == [i \in 1..Len(base_units) |-> UnitLen(base_units[i])]

\* the first level, whatever the unit
LevelIndexFirst(x) == 1

\* tuple.index
LevelIndex(x) == CHOOSE i \in 1..Len(Levels) : Levels[i] = x

(***************************************************************************)
(* Inputs.                                                                 *)
(***************************************************************************)
Spans ==
    {Td(d, 0, 0) : d \in 0..MaxSpanDays}
    \cup {Td(0, h * SEC_PER_HOUR, 0) : h \in 0..MaxSpanHours}
    \cup {Td(0, m * SEC_PER_MIN, 0) : m \in 0..MaxSpanMinutes}
    \cup {Td(0, s, 0) : s \in 0..MaxSpanSeconds}
    \cup {Td(0, 0, u) : u \in 0..MaxSpanMicros}

ViewStart == Td(100, 0, 0)

\* view intervals as the axis holds them; the hour spans also reversed
ViewIntervals ==
    {<<ViewStart, TdAdd(ViewStart, s)>> : s \in Spans}
    \cup {<<TdAdd(ViewStart, Td(0, h * SEC_PER_HOUR, 0)), ViewStart>> :
                h \in 1..MaxSpanHours}

MinTicksSet == {DefaultMinticks} \cup 1..MaxMinTicks

\* table edits a caller makes: the units edited and the values assigned
EditedUnits == {"hours"}

CustomIntervals == {<<3>>, <<6, 2>>}

CustomMaxticks == {2}

NonsingularInputs == {NaN, Inf, Fin(OneDay), Fin(Td(100, 13200, 0))}

(***************************************************************************)
(* AutoTimedeltaLocator: construction and operations.                      *)
(***************************************************************************)
NoFixed == [state |-> "none", base |-> "none", interval |-> 0, freq |-> Zero]

\* None, for a unit name and for a format string
NoUnit == "None"
NoFmt == <<"None">>

\* no TimedeltaFormatter yet
NoFormatter ==
    [state |-> "none", fmt |-> <<>>, offset_on |-> NoUnit,
     offset_fmt |-> NoFmt, offset_string |-> <<>>]

\* Formatter.axis is None until set_axis
NoAxis == [attached |-> FALSE, data |-> <<>>, view |-> <<>>]

\* no ConciseTimedeltaFormatter yet
NoConcise ==
    [state |-> "none", locator |-> "none", formats |-> <<>>,
     offset_formats |-> <<>>, show_offset |-> TRUE, offset_str |-> <<>>]

\* no AutoTimedeltaFormatter yet
NoAutoFmt ==
    [state |-> "none", locator |-> "none", defaultfmt |-> <<>>,
     scaled |-> <<>>]

\* no converter yet
NoConverter ==
    [kind |-> "none", formats |-> [given |-> FALSE, table |-> <<>>],
     offset_formats |-> [given |-> FALSE, table |-> <<>>],
     show_offset |-> TRUE, made |-> 0]

\* matplotlib as imported: its own _is_natively_supported and date2num, and
\* no converter registered for a timedelta type
\* the types Timple registers a converter for, and no converter
PatchTypes == {"np.timedelta64", "datetime.timedelta"}
Absent == [kind |-> "absent", id |-> 0]

NativeHost ==
    [is_natively_supported |-> <<"native">>, date2num |-> <<"native">>,
     registry |-> [k \in PatchTypes |-> Absent], date_converter |-> "auto"]

\* no Timple instance yet
NoTimple == [state |-> "none", converter |-> "default", revert_funcs |-> <<>>]

InitAuto ==
    /\ intervald = DefaultIntervald
    /\ maxticks = DefaultMaxticks
    /\ minticks \in MinTicksSet
    /\ freq = OneDay
    /\ located = "none"
    /\ fixed = NoFixed
    /\ formatter = NoFormatter
    /\ axis = NoAxis
    /\ concise = NoConcise
    /\ autofmt = NoAutoFmt
    /\ converter = NoConverter
    /\ host = NativeHost
    /\ timple = NoTimple
    /\ op = "init"
    /\ arg = <<>>
    /\ ret = <<>>

\* AutoTimedeltaLocator.__call__ up to the MultipleLocator it builds
Call(view) ==
    \E t \in {ViewlimToTd(view)} :
    \E loc \in {GetLocator(t[1], t[2], minticks, intervald, maxticks)} :
        /\ freq' = loc.freq
        /\ located' = loc.base
        /\ op' = "locate"
        /\ arg' = loc.tdelta
        /\ ret' = [base |-> loc.base, interval |-> loc.interval]
        /\ UNCHANGED <<extVars, intervald, maxticks, minticks, fixed, fmtVars>>

Nonsingular(vmin, vmax) ==
    /\ op' = "nonsingular"
    /\ arg' = <<vmin, vmax>>
    /\ ret' = AutoNonsingular(vmin, vmax)
    /\ UNCHANGED <<extVars, autoVars, fixed, fmtVars>>

\* AutoTimedeltaLocator._get_unit
GetUnit ==
    /\ op' = "get_unit"
    /\ arg' = <<>>
    /\ ret' = freq
    /\ UNCHANGED <<extVars, autoVars, fixed, fmtVars>>

\* locator.intervald[u] = L
EditIntervald(u, L) ==
    /\ intervald' = [intervald EXCEPT ![u] = L]
    /\ op' = "edit_intervald"
    /\ arg' = <<u, L>>
    /\ ret' = <<>>
    /\ UNCHANGED <<extVars, maxticks, minticks, freq, located, fixed, fmtVars>>

\* locator.maxticks[u] = n
EditMaxticks(u, n) ==
    /\ maxticks' = [maxticks EXCEPT ![u] = n]
    /\ op' = "edit_maxticks"
    /\ arg' = <<u, n>>
    /\ ret' = <<>>
    /\ UNCHANGED <<extVars, intervald, minticks, freq, located, fixed, fmtVars>>

\* ConciseTimedeltaFormatter.format_ticks, the part that reads the locator:
\* the level index of the locator's unit.
ConciseReadUnit ==
    /\ op' = "formatter_read"
    /\ arg' = <<>>
    /\ ret' = LevelIndex(freq)
    /\ UNCHANGED <<extVars, autoVars, fixed, fmtVars>>

NextAuto ==
    \/ \E view \in ViewIntervals : Call(view)
    \/ \E vmin \in NonsingularInputs, vmax \in NonsingularInputs :
            Nonsingular(vmin, vmax)
    \/ GetUnit
    \/ \E u \in EditedUnits, L \in CustomIntervals : EditIntervald(u, L)
    \/ \E u \in EditedUnits, n \in CustomMaxticks : EditMaxticks(u, n)
    \/ ConciseReadUnit

Spec == InitAuto /\ [][NextAuto]_vars

(***************************************************************************)
(* FixedTimedeltaLocator.                                                  *)
(***************************************************************************)
\* units a caller may pass: the five base units and others
UnitArgs == BaseUnitSet \cup {"lightyear", "weeks", "day", "Days", ""}

\* a constructor that accepts the first four units only
FixedLocatorInitFourUnits(base_unit, interval) ==
    IF base_unit \notin {base_units[i] : i \in 1..4}
    THEN [state |-> "ValueError", base |-> "none", interval |-> 0, freq |-> Zero]
    ELSE [state |-> "constructed", base |-> base_unit, interval |-> interval,
          freq |-> UnitLen(base_unit)]

\* FixedTimedeltaLocator.__init__
FixedLocatorInit(base_unit, interval) ==
    IF base_unit \notin BaseUnitSet
    THEN [state |-> "ValueError", base |-> "none", interval |-> 0, freq |-> Zero]
    ELSE [state |-> "constructed", base |-> base_unit, interval |-> interval,
          freq |-> UnitLen(base_unit)]

InitFixed ==
    /\ intervald = DefaultIntervald
    /\ maxticks = DefaultMaxticks
    /\ minticks = DefaultMinticks
    /\ freq = OneDay
    /\ located = "none"
    /\ fixed = NoFixed
    /\ formatter = NoFormatter
    /\ axis = NoAxis
    /\ concise = NoConcise
    /\ autofmt = NoAutoFmt
    /\ converter = NoConverter
    /\ host = NativeHost
    /\ timple = NoTimple
    /\ op = "init"
    /\ arg = <<>>
    /\ ret = <<>>

FixedConstruct(base_unit, interval) ==
    /\ fixed' = FixedLocatorInit(base_unit, interval)
    /\ op' = "fixed_init"
    /\ arg' = <<base_unit, interval>>
    /\ ret' = fixed'.state
    /\ UNCHANGED <<extVars, autoVars, fmtVars>>

\* FixedTimedeltaLocator._get_unit
FixedGetUnit ==
    /\ fixed.state = "constructed"
    /\ op' = "fixed_get_unit"
    /\ arg' = <<>>
    /\ ret' = fixed.freq
    /\ UNCHANGED <<extVars, autoVars, fixed, fmtVars>>

NextFixed ==
    \/ \E base_unit \in UnitArgs, interval \in 1..MaxFixedInterval :
            FixedConstruct(base_unit, interval)
    \/ FixedGetUnit

SpecFixed == InitFixed /\ [][NextFixed]_vars

(***************************************************************************)
(* Format engine: strftimedelta.  Strings are sequences of characters.     *)
(***************************************************************************)
Digits == <<"0", "1", "2", "3", "4", "5", "6", "7", "8", "9">>

\* str(n) for an integer n >= 0
RECURSIVE IntStr(_)
IntStr(n) ==
    IF n < 10
    THEN <<Digits[n + 1]>>
    ELSE IntStr(n \div 10) \o <<Digits[(n % 10) + 1]>>

\* '{:0<width>d}'.format(n) for n >= 0
RECURSIVE ZeroPad(_, _)
ZeroPad(str, width) ==
    IF Len(str) >= width THEN str ELSE ZeroPad(<<"0">> \o str, width)

\* the substitution values of strftimedelta.  s_t is abs(td.total_seconds());
\* every int() below takes a quotient or remainder by whole seconds, which
\* the whole seconds of s_t decide.  us is read from td itself.
StrfValues(td) ==
    LET mag == TdAbs(td)
        s_t == mag.days * SEC_PER_DAY + mag.seconds
        d == s_t \div SEC_PER_DAY
        s0 == s_t % SEC_PER_DAY
        m_t == s0 \div SEC_PER_MIN
        s == s0 % SEC_PER_MIN
        h == m_t \div MIN_PER_HOUR
        m == m_t % MIN_PER_HOUR
        h_t == s_t \div SEC_PER_HOUR
        us0 == td.microseconds
        ms == us0 \div 1000
        us == us0 % 1000
    IN  [d |-> IntStr(d),
         H |-> IntStr(h_t),
         M |-> IntStr(m_t),
         S |-> IntStr(s_t),
         h |-> ZeroPad(IntStr(h), 2),
         m |-> ZeroPad(IntStr(m), 2),
         s |-> ZeroPad(IntStr(s), 2),
         ms |-> ZeroPad(IntStr(ms), 3),
         us |-> ZeroPad(IntStr(us), 3),
         day |-> IF d = 1 THEN <<"d", "a", "y">> ELSE <<"d", "a", "y", "s">>]

\* the keys of the values dict, as character sequences
Vocabulary ==
    {<<"d">>, <<"H">>, <<"M">>, <<"S">>, <<"h">>, <<"m">>, <<"s">>,
     <<"m", "s">>, <<"u", "s">>, <<"d", "a", "y">>}

\* values[key] for a key of the dict
ValueOf(values, key) ==
    CASE key = <<"d">> -> values.d
      [] key = <<"H">> -> values.H
      [] key = <<"M">> -> values.M
      [] key = <<"S">> -> values.S
      [] key = <<"h">> -> values.h
      [] key = <<"m">> -> values.m
      [] key = <<"s">> -> values.s
      [] key = <<"m", "s">> -> values.ms
      [] key = <<"u", "s">> -> values.us
      [] key = <<"d", "a", "y">> -> values.day

\* string.Template's identifier pattern [_a-z][_a-z0-9]*, case-insensitive,
\* over the characters the model's format specs are made of
IdStartChars ==
    {"_", "a", "d", "h", "m", "s", "u", "x", "y", "H", "M", "S"}

IdChars == IdStartChars \cup {Digits[i] : i \in 1..Len(Digits)}

\* the identifier ends after its first character
IdEndShortest(f, i) == i

\* last index of the longest run of identifier characters that starts at i
\* (the regular expression's * is greedy)
IdEnd(f, i) ==
    CHOOSE j \in i..Len(f) :
        /\ \A k \in i..j : f[k] \in IdChars
        /\ j = Len(f) \/ f[j + 1] \notin IdChars

Slice(f, a, b) == [k \in 1..(b - a + 1) |-> f[a + k - 1]]

TemplateOk(str) == [err |-> "", str |-> str]
TemplateErr(e) == [err |-> e, str |-> <<>>]

\* what follows one piece of the result: an error of the rest is the error
\* of the whole
Piece(str, rest) ==
    IF rest.err # "" THEN rest ELSE TemplateOk(str \o rest.str)

\* the index of the first delimiter at or after i, Len(f) + 1 if there is
\* none: the text before it is copied as it is
NextDelimiter(f, i) ==
    CHOOSE j \in i..(Len(f) + 1) :
        /\ j = Len(f) + 1 \/ f[j] = "%"
        /\ \A k \in i..(j - 1) : f[k] # "%"

\* _TimedeltaFormatTemplate(f).substitute(**values) from index i on: the
\* matches of  %(?: % | id | {id} | <nothing> )  from left to right; an id
\* that is no key raises KeyError, an ill-formed placeholder ValueError.
RECURSIVE Substitute(_, _, _)
Substitute(f, i, values) ==
    IF i > Len(f) THEN TemplateOk(<<>>)
    ELSE IF f[i] # "%"
         THEN Piece(Slice(f, i, NextDelimiter(f, i) - 1),
                    Substitute(f, NextDelimiter(f, i), values))
    ELSE IF i = Len(f) THEN TemplateErr("ValueError")
    ELSE IF f[i + 1] = "%" THEN Piece(<<"%">>, Substitute(f, i + 2, values))
    ELSE IF f[i + 1] \in IdStartChars
         THEN LET j == IdEnd(f, i + 1)
                  named == Slice(f, i + 1, j)
              IN  IF named \in Vocabulary
                  THEN Piece(ValueOf(values, named), Substitute(f, j + 1, values))
                  ELSE TemplateErr("KeyError")
    ELSE IF f[i + 1] = "{" /\ i + 2 <= Len(f) /\ f[i + 2] \in IdStartChars
         THEN LET j == IdEnd(f, i + 2)
                  braced == Slice(f, i + 2, j)
              IN  IF j < Len(f) /\ f[j + 1] = "}"
                  THEN IF braced \in Vocabulary
                       THEN Piece(ValueOf(values, braced),
                                  Substitute(f, j + 2, values))
                       ELSE TemplateErr("KeyError")
                  ELSE TemplateErr("ValueError")
    ELSE TemplateErr("ValueError")

\* strftimedelta(td, fmt_str): the sign, the substitution, KeyError turned
\* into ValueError (a ValueError of the template propagates as it is)
Strftimedelta(td, fmt_str) ==
    LET sign == IF TdIsNeg(td) THEN <<"-">> ELSE <<>>
        result == Substitute(fmt_str, 1, StrfValues(td))
    IN  IF result.err # ""
        THEN [err |-> "ValueError", str |-> <<>>]
        ELSE [err |-> "", str |-> sign \o result.str]

\* format specs of the tests and the default tables, and one per token
TokenFmts == {<<"%">> \o key : key \in Vocabulary}

NamedFmts ==
    TokenFmts \cup
    {<<"%", "d", " ", "%", "d", "a", "y", ",", " ", "%", "h", ":", "%", "m">>,
     <<"%", "h", ":", "%", "m", ":", "%", "s", ".", "%", "m", "s">>,
     <<"%", "s", ".", "%", "m", "s", "%", "u", "s">>,
     <<"%", "S", ".", "%", "m", "s">>,
     <<"%", "M", ":", "%", "s", ".", "0">>,
     <<"%", "d", " ", "%", "d", "a", "y", "s">>}

FmtSeconds == {0, 1, 59, 60, 3599, 3600, 43200, 86399}

FmtMicros == {0, 1, 999, 1000, 250000, 500000, 999999}

FmtDurations ==
    {Td(d, s, us) : d \in (-MaxFmtDays)..MaxFmtDays, s \in FmtSeconds,
                    us \in FmtMicros}

\* every format spec of up to MaxFmtLen characters over FmtAlphabet
FmtAlphabet == {"%", "d", "a", "y", "m", "s", " ", "{", "}"}

ShortFmts == UNION {[1..n -> FmtAlphabet] : n \in 0..MaxFmtLen}

TemplateDurations == {Td(1, 3723, 4005), Td(-3, 0, 0)}

FmtInputs ==
    (FmtDurations \X NamedFmts) \cup (TemplateDurations \X ShortFmts)

InitFmt ==
    /\ intervald = DefaultIntervald
    /\ maxticks = DefaultMaxticks
    /\ minticks = DefaultMinticks
    /\ freq = OneDay
    /\ located = "none"
    /\ fixed = NoFixed
    /\ formatter = NoFormatter
    /\ axis = NoAxis
    /\ concise = NoConcise
    /\ autofmt = NoAutoFmt
    /\ converter = NoConverter
    /\ host = NativeHost
    /\ timple = NoTimple
    /\ op = "input"
    /\ arg \in FmtInputs
    /\ ret = <<>>

\* one call of strftimedelta on the input drawn
StrftimedeltaCall ==
    /\ op = "input"
    /\ op' = "strftimedelta"
    /\ ret' = Strftimedelta(arg[1], arg[2])
    /\ UNCHANGED <<extVars, autoVars, fixed, fmtVars, arg>>

NextFmt == StrftimedeltaCall

SpecFmt == InitFmt /\ [][NextFmt]_vars

(***************************************************************************)
(* Claims about AutoTimedeltaLocator.                                      *)
(***************************************************************************)
\* span * unitFactor >= k, as a comparison of durations
AtLeastUnits(span, base, k) == ~TdLess(span, TdScale(k, UnitLen(base)))

\* floor(span * unitFactor / interval) <= m
FitsMaxticks(span, base, interval, m) ==
    TdLess(span, TdScale((m + 1) * interval, UnitLen(base)))

Qualifying(span) ==
    {i \in 1..Len(base_units) : AtLeastUnits(span, base_units[i], minticks)}

MinOf(S) == CHOOSE x \in S : \A y \in S : x <= y

\* C1: the base unit a locate call chooses is the first unit, in the order
\* days, hours, minutes, seconds, microseconds, with
\* span * unitFactor >= minticks, and days if no unit qualifies.
C1_UnitSelection ==
    op = "locate" =>
        ret.base = IF Qualifying(arg) = {}
                   THEN "days"
                   ELSE base_units[MinOf(Qualifying(arg))]

Satisfying(span, base) ==
    {i \in 1..Len(intervald[base]) :
        FitsMaxticks(span, base, intervald[base][i], maxticks[base])}

\* C2: the interval a locate call chooses is the first entry of the chosen
\* unit's list with floor(span * unitFactor / interval) <= maxticks[unit],
\* and the last entry of the list if no entry satisfies this.
C2_IntervalSelection ==
    op = "locate" =>
        ret.interval =
            IF Satisfying(arg, ret.base) = {}
            THEN intervald[ret.base][Len(intervald[ret.base])]
            ELSE intervald[ret.base][MinOf(Satisfying(arg, ret.base))]

\* a locate call that ran off the end of an interval list that is not
\* ascending, and so chose its last entry, not its largest
C2_Witness ==
    /\ op = "locate"
    /\ ret.base = "hours"
    /\ intervald["hours"] = <<6, 2>>
    /\ Satisfying(arg, "hours") = {}
    /\ ret.interval = 2

\* C3: with the default tables and minticks, the chosen unit and interval
\* never give fewer than minticks tick intervals in the span:
\* span * unitFactor / interval >= minticks.
C3_AtLeastMinticks ==
    (/\ op = "locate"
     /\ intervald = DefaultIntervald
     /\ maxticks = DefaultMaxticks
     /\ minticks = DefaultMinticks)
        => AtLeastUnits(arg, ret.base, minticks * ret.interval)

\* C4: every locate call selects its interval from the interval lists and
\* max-tick targets as they are when it is called, and leaves them as they
\* are.
C4_EditsUsedByNextLocate ==
    [][op' = "locate" =>
        /\ intervald' = intervald
        /\ maxticks' = maxticks
        /\ \E i \in 1..Len(intervald[ret'.base]) :
            /\ ret'.interval = intervald[ret'.base][i]
            /\ \/ FitsMaxticks(arg', ret'.base, ret'.interval, maxticks[ret'.base])
               \/ \A j \in 1..Len(intervald[ret'.base]) :
                    ~FitsMaxticks(arg', ret'.base, intervald[ret'.base][j],
                                  maxticks[ret'.base])]_vars

\* a 2 day view after intervald['hours'] = [3]: ticks every 3 hours, where
\* the default list gives 4
C4_Witness ==
    /\ op = "locate"
    /\ arg = TwoDays
    /\ intervald["hours"] = <<3>>
    /\ ret = [base |-> "hours", interval |-> 3]

Lo(a) == IF TdLess(a[2].val, a[1].val) THEN a[2].val ELSE a[1].val
Hi(a) == IF TdLess(a[2].val, a[1].val) THEN a[1].val ELSE a[2].val

\* C5 as stated: a non-finite bound gives (1 day, 2 days); otherwise the
\* bounds are ordered and a zero-width interval is padded by
\* 2 * unit * interval on each side, unit and interval being the locator's
\* current unit and interval.
C5_PadByUnitInterval ==
    op = "nonsingular" =>
        ret = IF ~isfinite(arg[1]) \/ ~isfinite(arg[2])
              THEN <<OneDay, TwoDays>>
              ELSE IF Lo(arg) = Hi(arg)
                   THEN <<TdSub(Lo(arg), TdScale(2 * GetInterval, freq)),
                          TdAdd(Hi(arg), TdScale(2 * GetInterval, freq))>>
                   ELSE <<Lo(arg), Hi(arg)>>

\* C5 amended: a non-finite bound gives (1 day, 2 days); otherwise the
\* bounds are ordered and a zero-width interval is padded by 2 days on each
\* side, whatever the locator's current unit and interval are.
C5_PadByTwoDays ==
    op = "nonsingular" =>
        ret = IF ~isfinite(arg[1]) \/ ~isfinite(arg[2])
              THEN <<OneDay, TwoDays>>
              ELSE IF Lo(arg) = Hi(arg)
                   THEN <<Td(Lo(arg).days - 2, Lo(arg).seconds, Lo(arg).microseconds),
                          Td(Hi(arg).days + 2, Hi(arg).seconds, Hi(arg).microseconds)>>
                   ELSE <<Lo(arg), Hi(arg)>>

\* a zero-width interval padded while the locator's unit is not days
C5_Witness ==
    /\ op = "nonsingular"
    /\ isfinite(arg[1]) /\ isfinite(arg[2])
    /\ arg[1] = arg[2]
    /\ freq # OneDay
    /\ ret[2] = TdAdd(arg[2].val, TwoDays)

\* base_factors[unit], as the two factors of the model
ClaimedFactor(u) ==
    CASE u = "none" -> <<1, 1>>
      [] u = "days" -> <<1, 1>>
      [] u = "hours" -> <<24, 1>>
      [] u = "minutes" -> <<1440, 1>>
      [] u = "seconds" -> <<86400, 1>>
      [] u = "microseconds" -> <<86400, 1000000>>

\* x = 1 / base_factors[u] days: x taken factor[2] times is the
\* factor[1]-th part of a day
IsReciprocalFactor(x, u) ==
    TdScale(ClaimedFactor(u)[2], x) = Td(0, 86400 \div ClaimedFactor(u)[1], 0)

\* C6: get_unit returns the reciprocal factor of the unit the most recent
\* locate call chose (1 before any locate call), and only locate changes it.
C6_UnitState ==
    /\ [](/\ IsReciprocalFactor(freq, located)
          /\ op = "get_unit" => ret = freq)
    /\ [][op' # "locate" => freq' = freq /\ located' = located]_vars

\* get_unit after a locate call that chose minutes and a table edit
C6_Witness ==
    /\ op = "get_unit"
    /\ located = "minutes"
    /\ ret = Td(0, 60, 0)
    /\ intervald # DefaultIntervald

(***************************************************************************)
(* Claims about FixedTimedeltaLocator.                                     *)
(***************************************************************************)
\* C7: construction succeeds for each of days, hours, minutes, seconds,
\* microseconds and raises ValueError for every other unit; after a
\* successful construction get_unit returns 1 / unitFactor of the unit.
C7_FixedUnits ==
    /\ op = "fixed_init" =>
        /\ arg[1] \in {"days", "hours", "minutes", "seconds", "microseconds"}
              => /\ ret = "constructed"
                 /\ fixed.base = arg[1]
                 /\ fixed.interval = arg[2]
        /\ arg[1] \notin {"days", "hours", "minutes", "seconds", "microseconds"}
              => ret = "ValueError" /\ fixed.state = "ValueError"
    /\ op = "fixed_get_unit" =>
        /\ fixed.state = "constructed"
        /\ IsReciprocalFactor(ret, fixed.base)

\* get_unit of a locator constructed on microseconds
C7_Witness ==
    /\ op = "fixed_get_unit"
    /\ fixed.base = "microseconds"
    /\ ret = Td(0, 0, 1)

(***************************************************************************)
(* Claims about strftimedelta.                                             *)
(***************************************************************************)
\* C8: for a negative duration the result is '-' followed by the rendering
\* of the magnitude with the same spec (every sub-value, the millisecond and
\* microsecond remainders included, is computed from the magnitude); for a
\* non-negative duration no sign is prefixed.
C8_SignAndMagnitude ==
    (op = "strftimedelta" /\ ret.err = "") =>
        IF TdIsNeg(arg[1])
        THEN ret.str = <<"-">> \o Strftimedelta(TdAbs(arg[1]), arg[2]).str
        ELSE ret.str = <<>> \/ Head(ret.str) # "-"

SignOf(td) == IF TdIsNeg(td) THEN <<"-">> ELSE <<>>

\* C9: %H, %M and %S render the total whole hours, minutes and seconds of
\* the magnitude, not reduced by the parent unit (1.5 days: H=36, M=2160,
\* S=129600).
C9_TotalsNotReduced ==
    op = "strftimedelta" =>
        /\ arg[2] = <<"%", "H">> =>
            ret.str = SignOf(arg[1]) \o
                IntStr(TdAbs(arg[1]).days * 24 + (TdAbs(arg[1]).seconds \div 3600))
        /\ arg[2] = <<"%", "M">> =>
            ret.str = SignOf(arg[1]) \o
                IntStr(TdAbs(arg[1]).days * 1440 + (TdAbs(arg[1]).seconds \div 60))
        /\ arg[2] = <<"%", "S">> =>
            ret.str = SignOf(arg[1]) \o
                IntStr(TdAbs(arg[1]).days * 86400 + TdAbs(arg[1]).seconds)

ClaimedVocabulary ==
    {<<"d">>, <<"H">>, <<"M">>, <<"S">>, <<"h">>, <<"m">>, <<"s">>,
     <<"m", "s">>, <<"u", "s">>, <<"d", "a", "y">>}

\* the %-references of a spec that holds no '%%' and no '{'
RefPositions(f) == {i \in 1..Len(f) : f[i] = "%"}

\* length of the token a reference at i names: the letters that follow it
TokenLen(f, i) ==
    Cardinality({k \in (i + 1)..Len(f) : \A j \in (i + 1)..k : f[j] \in IdChars})

TokenAt(f, i) == Slice(f, i + 1, i + TokenLen(f, i))

PlainSpec(f) ==
    /\ \A i \in 1..Len(f) : f[i] # "{"
    /\ \A i \in 1..(Len(f) - 1) : ~(f[i] = "%" /\ f[i + 1] = "%")

\* C10: each %token is matched as the longest token and replaced by its
\* value; rendering fails with ValueError, without a partial result, exactly
\* when the spec references a token outside the vocabulary.
C10_TokenMatching ==
    (op = "strftimedelta" /\ PlainSpec(arg[2])) =>
        /\ ret.err = "ValueError" <=>
              \E i \in RefPositions(arg[2]) :
                    TokenAt(arg[2], i) \notin ClaimedVocabulary
        /\ ret.err # "" => ret.err = "ValueError" /\ ret.str = <<>>
        /\ \A p \in RefPositions(arg[2]) :
              (RefPositions(arg[2]) = {p} /\ TokenAt(arg[2], p) \in ClaimedVocabulary)
                => ret.str = SignOf(arg[1])
                        \o Slice(arg[2], 1, p - 1)
                        \o ValueOf(StrfValues(arg[1]), TokenAt(arg[2], p))
                        \o Slice(arg[2], p + TokenLen(arg[2], p) + 1, Len(arg[2]))

\* '%day' rendered as the plural helper, not as %d followed by 'ay'
C10_Witness ==
    /\ op = "strftimedelta"
    /\ arg[2] = <<"%", "d", "a", "y">>
    /\ arg[1] = Td(1, 3723, 4005)
    /\ ret = [err |-> "", str |-> <<"d", "a", "y">>]

(***************************************************************************)
(* Natural numbers beyond the 32-bit integers: little-endian sequences of  *)
(* limbs in base LimbBase without leading zero limbs (<<>> is 0).  They    *)
(* carry the 53-bit significands of float64 values and decimal fractions   *)
(* of a day.                                                               *)
(***************************************************************************)
LimbBits == 10
LimbBase == 1024

RECURSIVE Pow2(_)
Pow2(n) == IF n = 0 THEN 1 ELSE 2 * Pow2(n - 1)

\* a without its leading zero limbs
BTrim(a) ==
    LET top == {i \in 1..Len(a) : a[i] # 0}
    IN  IF top = {} THEN <<>>
        ELSE SubSeq(a, 1, CHOOSE i \in top : \A j \in top : j <= i)

\* a natural number below 2^31 has at most four limbs
BFromInt(n) ==
    BTrim(<<n % LimbBase, (n \div LimbBase) % LimbBase,
            (n \div (LimbBase * LimbBase)) % LimbBase,
            n \div (LimbBase * LimbBase * LimbBase)>>)

BLimb(a, i) == IF i <= Len(a) THEN a[i] ELSE 0

\* the value of a number that fits 31 bits
BToInt(a) ==
    BLimb(a, 1) + LimbBase * (BLimb(a, 2) + LimbBase * (BLimb(a, 3)
        + LimbBase * BLimb(a, 4)))

IntMax(x, y) == IF x < y THEN y ELSE x

\* a + b: carry[i] is the carry into limb i
BAdd(a, b) ==
    LET n == IntMax(Len(a), Len(b))
        carry[i \in 1..(n + 1)] ==
            IF i = 1 THEN 0
            ELSE (BLimb(a, i - 1) + BLimb(b, i - 1) + carry[i - 1])
                    \div LimbBase
    IN  BTrim([i \in 1..(n + 1) |->
                  (BLimb(a, i) + BLimb(b, i) + carry[i]) % LimbBase])

\* a - b for a >= b: borrow[i] is the borrow from limb i
BSub(a, b) ==
    LET borrow[i \in 1..(Len(a) + 1)] ==
            IF i = 1 THEN 0
            ELSE IF BLimb(a, i - 1) - BLimb(b, i - 1) - borrow[i - 1] < 0
                 THEN 1 ELSE 0
    IN  BTrim([i \in 1..Len(a) |->
                  (BLimb(a, i) - BLimb(b, i) - borrow[i]) % LimbBase])

\* -1, 0, 1 as a < b, a = b, a > b: the most significant limb that differs
\* decides
BCmp(a, b) ==
    LET diff == {i \in 1..IntMax(Len(a), Len(b)) : BLimb(a, i) # BLimb(b, i)}
        top == CHOOSE i \in diff : \A j \in diff : j <= i
    IN  IF diff = {} THEN 0
        ELSE IF BLimb(a, top) < BLimb(b, top) THEN -1 ELSE 1

\* a * k for 0 <= k <= 10^6: the carry stays below k, so two more limbs
\* hold it
BMulSmall(a, k) ==
    LET carry[i \in 1..(Len(a) + 2)] ==
            IF i = 1 THEN 0
            ELSE (BLimb(a, i - 1) * k + carry[i - 1]) \div LimbBase
    IN  BTrim([i \in 1..(Len(a) + 2) |->
                  (BLimb(a, i) * k + carry[i]) % LimbBase])

\* quotient and remainder of a by k, 0 < k <= 10^6: rem[i] is the remainder
\* of the limbs above limb i - 1, taken from the most significant one down
BDivSmall(a, k) ==
    LET rem[i \in 1..(Len(a) + 1)] ==
            IF i = Len(a) + 1 THEN 0
            ELSE (rem[i + 1] * LimbBase + a[i]) % k
    IN  [q |-> BTrim([i \in 1..Len(a) |->
                         (rem[i + 1] * LimbBase + a[i]) \div k]),
         r |-> rem[1]]

\* a * 2^n
BShl(a, n) ==
    IF a = <<>>
    THEN <<>>
    ELSE [i \in 1..(n \div LimbBits) |-> 0] \o BMulSmall(a, Pow2(n % LimbBits))

\* floor(a / 2^n)
BShr(a, n) ==
    IF n \div LimbBits >= Len(a)
    THEN <<>>
    ELSE BDivSmall(SubSeq(a, (n \div LimbBits) + 1, Len(a)),
                   Pow2(n % LimbBits)).q

RECURSIVE IntBitLen(_)
IntBitLen(n) == IF n = 0 THEN 0 ELSE 1 + IntBitLen(n \div 2)

\* the number of significant bits
BBitLen(a) ==
    IF a = <<>> THEN 0 ELSE (Len(a) - 1) * LimbBits + IntBitLen(a[Len(a)])

BIsOdd(a) == a # <<>> /\ a[1] % 2 = 1

(***************************************************************************)
(* float64 values, as numpy and CPython compute with them: sign * mant *   *)
(* 2^exp with a significand of exactly MantBits bits (zero: mant = <<>>),  *)
(* or NaN.  The magnitudes of the model stay far from the exponent limits, *)
(* so neither subnormals nor overflow to infinity occur.                   *)
(***************************************************************************)
MantBits == 53

FZero == [kind |-> "finite", sign |-> 1, mant |-> <<>>, exp |-> 0]
FNaN == [kind |-> "nan", sign |-> 1, mant |-> <<>>, exp |-> 0]

FIsNaN(x) == x.kind = "nan"

\* Body of the value of e.  The value is computed before Body is entered,
\* where a LET definition is computed at its first use, inside whatever
\* uses it.
Then(e, Body(_)) == CHOOSE r \in {Body(v) : v \in {e}} : TRUE

\* m rounded to MantBits bits, ties to even, for a number m + f of more than
\* MantBits bits: shift bits are dropped, and f (0 < f < 1 if sticky, else
\* 0) breaks a tie upwards
RoundedMant(m, shift, sticky) ==
    Then(BShr(m, shift), LAMBDA q :
    Then(BCmp(BSub(m, BShl(q, shift)), BShl(<<1>>, shift - 1)), LAMBDA c :
        IF c = 1 \/ (c = 0 /\ sticky) \/ (c = 0 /\ ~sticky /\ BIsOdd(q))
        THEN BAdd(q, <<1>>) ELSE q))

\* the float64 nearest to sign * (m + f) * 2^e, ties to even, where f = 0 if
\* sticky is FALSE and 0 < f < 1 if it is TRUE (then m has more than
\* MantBits + 1 bits)
FRound(sign, m, e, sticky) ==
    IF m = <<>> THEN FZero
    ELSE IF BBitLen(m) <= MantBits
    THEN [kind |-> "finite", sign |-> sign,
          mant |-> BShl(m, MantBits - BBitLen(m)),
          exp |-> e + BBitLen(m) - MantBits]
    ELSE Then(RoundedMant(m, BBitLen(m) - MantBits, sticky), LAMBDA q1 :
        IF BBitLen(q1) > MantBits
        THEN [kind |-> "finite", sign |-> sign,
              mant |-> BShr(q1, 1), exp |-> e + BBitLen(m) - MantBits + 1]
        ELSE [kind |-> "finite", sign |-> sign,
              mant |-> q1, exp |-> e + BBitLen(m) - MantBits])

\* the float64 of an integer sign * m
FFromBig(sign, m) == FRound(sign, m, 0, FALSE)

\* the number of extra quotient bits a division keeps before it rounds
DivGuardBits == 30

\* x / k for an integer 0 < k <= 10^6, correctly rounded
FDivSmall(x, k) ==
    IF FIsNaN(x) THEN FNaN
    ELSE Then(BDivSmall(BShl(x.mant, DivGuardBits), k), LAMBDA d :
             FRound(x.sign, d.q, x.exp - DivGuardBits, d.r # 0))

\* x * k1 * k2 for integers 0 < k1, k2 <= 10^6 whose product is a float64,
\* correctly rounded
FMulSmall2(x, k1, k2) ==
    IF FIsNaN(x) THEN FNaN
    ELSE Then(BMulSmall(BMulSmall(x.mant, k1), k2), LAMBDA m :
             FRound(x.sign, m, x.exp, FALSE))

\* x + y for finite x and y that are not zero, with the significands mx and
\* my at their common exponent e
FAddAligned(x, y, mx, my, e) ==
    IF x.sign = y.sign
    THEN Then(BAdd(mx, my), LAMBDA m : FRound(x.sign, m, e, FALSE))
    ELSE Then(BCmp(mx, my), LAMBDA c :
             IF c = 0 THEN FZero
             ELSE IF c = 1
             THEN Then(BSub(mx, my), LAMBDA m : FRound(x.sign, m, e, FALSE))
             ELSE Then(BSub(my, mx), LAMBDA m : FRound(y.sign, m, e, FALSE)))

\* x + y, correctly rounded
FAdd(x, y) ==
    IF FIsNaN(x) \/ FIsNaN(y) THEN FNaN
    ELSE IF x.mant = <<>> THEN y
    ELSE IF y.mant = <<>> THEN x
    ELSE Then(IF x.exp < y.exp THEN x.exp ELSE y.exp, LAMBDA e :
         Then(BShl(x.mant, x.exp - e), LAMBDA mx :
         Then(BShl(y.mant, y.exp - e), LAMBDA my :
             FAddAligned(x, y, mx, my, e))))

\* modf of a finite x: the integral part as a natural number with the sign
\* of x, and the fractional part as a float64 (both are exact)
FModf(x) ==
    IF x.exp >= 0
    THEN [sign |-> x.sign, int |-> BShl(x.mant, x.exp), frac |-> FZero]
    ELSE Then(BShr(x.mant, -x.exp), LAMBDA ip :
         Then(BSub(x.mant, BShl(ip, -x.exp)), LAMBDA rest :
             [sign |-> x.sign, int |-> ip,
              frac |-> FRound(x.sign, rest, x.exp, FALSE)]))

\* -1, 0, 1 as |x| < 1/2, |x| = 1/2, |x| > 1/2, for a finite |x| < 1
FCmpHalf(x) ==
    IF x.mant = <<>> THEN -1
    ELSE IF x.exp + MantBits < 0 THEN -1
    ELSE IF x.exp + MantBits > 0 THEN 1
    ELSE IF BCmp(x.mant, BShl(<<1>>, MantBits - 1)) = 0 THEN 0 ELSE 1

(***************************************************************************)
(* Duration codec in float64: timedelta2num and num2timedelta.             *)
(***************************************************************************)
\* the largest number of days of a datetime.timedelta
MaxTimedeltaDays == 999999999

\* the elements timedelta2num accepts: datetime.timedelta, numpy.timedelta64
\* and pandas.Timedelta, the last two with their missing value
Elem(type, td) == [type |-> type, nat |-> FALSE, td |-> td]
NaTElem(type) == [type |-> type, nat |-> TRUE, td |-> Zero]

\* |whole seconds| of a duration and their sign: astype('timedelta64[s]')
\* takes the floor
DSeconds(d) ==
    IF d.days >= 0
    THEN [sign |-> 1,
          mag |-> BAdd(BMulSmall(BFromInt(d.days), SEC_PER_DAY),
                       BFromInt(d.seconds))]
    ELSE [sign |-> -1,
          mag |-> BSub(BMulSmall(BFromInt(-d.days), SEC_PER_DAY),
                       BFromInt(d.seconds))]

\* _td64_to_ordinalf on one element in float64.  extra.astype(float64) is
\* the exact nanosecond count 1000 * microseconds, and a correctly rounded
\* quotient depends on the ratio only: extra / 1.0e9 is the float64 of
\* microseconds / 10^6.
Td64ToOrdinalfFloat(e) ==
    IF e.nat THEN FNaN
    ELSE LET ds == DSeconds(e.td)
             dt0 == FFromBig(ds.sign, ds.mag)
             extra == FDivSmall(FFromBig(1, BFromInt(e.td.microseconds)),
                                MUSECONDS_PER_SEC)
         IN  FDivSmall(FAdd(dt0, extra), SEC_PER_DAY)

\* timedelta2num on t = [iterable, elems]: a scalar is wrapped into a list
\* of one element and unwrapped on return.  Elements with a .value (pandas)
\* are first turned into timedelta64 with NaT in the masked places, which
\* keeps every element's duration and missing flag.
ToTimedelta64(e) == [e EXCEPT !.type = "timedelta64"]

Timedelta2numNoEmptyCase(t) ==
    IF Len(t.elems) = 0
    THEN [err |-> "IndexError", iterable |-> t.iterable, vals |-> <<>>]
    ELSE [err |-> "", iterable |-> t.iterable,
          vals |-> [i \in 1..Len(t.elems) |->
                        Td64ToOrdinalfFloat(ToTimedelta64(t.elems[i]))]]

Timedelta2numArray(t) ==
    IF Len(t.elems) = 0
    THEN [err |-> "", iterable |-> t.iterable, vals |-> <<>>]
    ELSE [err |-> "", iterable |-> t.iterable,
          vals |-> [i \in 1..Len(t.elems) |->
                        Td64ToOrdinalfFloat(ToTimedelta64(t.elems[i]))]]

\* datetime.timedelta(days=x) for a float64 x, as CPython's delta_new and
\* accum compute it: the integral days exactly, the fractional days times
\* the microseconds per day in float64, and the microsecond fraction left
\* over rounded half to even.
\* the microseconds of |x| days: the integral days exactly, plus q, the
\* fractional days in microseconds (a float64 product), whose own fraction
\* is rounded half to even
MicrosecondsOf(whole_days, q) ==
    Then(BAdd(BMulSmall(BMulSmall(whole_days, SEC_PER_DAY),
                        MUSECONDS_PER_SEC), q.int), LAMBDA sum :
    Then(FCmpHalf(q.frac), LAMBDA c :
        IF c = 1 \/ (c = 0 /\ BIsOdd(sum)) THEN BAdd(sum, <<1>>) ELSE sum))

TimedeltaFromDays(x) ==
    IF FIsNaN(x) THEN [err |-> "ValueError", td |-> Zero]
    ELSE Then(FModf(x), LAMBDA p :
         Then(FMulSmall2(p.frac, SEC_PER_DAY, MUSECONDS_PER_SEC), LAMBDA f :
         Then(FModf(f), LAMBDA q :
         Then(MicrosecondsOf(p.int, q), LAMBDA us :
         Then(BDivSmall(us, MUSECONDS_PER_SEC), LAMBDA secs :
         Then(BDivSmall(secs.q, SEC_PER_DAY), LAMBDA days :
             IF BBitLen(days.q) > 30
             THEN [err |-> "OverflowError", td |-> Zero]
             ELSE Then(Td(x.sign * BToInt(days.q), x.sign * days.r,
                          x.sign * secs.r), LAMBDA n :
                 IF n.days > MaxTimedeltaDays \/ n.days < -MaxTimedeltaDays
                 THEN [err |-> "OverflowError", td |-> Zero]
                 ELSE [err |-> "", td |-> n])))))))

\* num2timedelta on x = [iterable, vals]: the vectorized constructor raises
\* as soon as one element does
Num2timedelta(x) ==
    LET r == [i \in 1..Len(x.vals) |-> TimedeltaFromDays(x.vals[i])]
        bad == {i \in 1..Len(r) : r[i].err # ""}
    IN  IF bad = {}
        THEN [err |-> "", iterable |-> x.iterable,
              tds |-> [i \in 1..Len(r) |-> r[i].td]]
        ELSE [err |-> r[CHOOSE i \in bad : \A j \in bad : i <= j].err,
              iterable |-> x.iterable, tds |-> <<>>]

(***************************************************************************)
(* Duration codec: inputs and calls.                                       *)
(***************************************************************************)
MaxCodecDays == 2
MaxSeqLen == 2

ElemTypes == {"timedelta", "timedelta64", "pandas"}

\* the types that have a missing value (numpy NaT, pandas.NaT)
NaTTypes == {"timedelta64", "pandas"}

CodecSmallDurations ==
    {Td(d, s, us) : d \in (-MaxCodecDays)..MaxCodecDays,
                    s \in {0, 6 * SEC_PER_HOUR, SEC_PER_DAY - 1},
                    us \in {0, 3000, MUSECONDS_PER_SEC - 1}}

\* durations of many days, up to the largest datetime.timedelta
CodecLargeDurations ==
    {Td(100000, 0, 1), Td(1000000, 0, 1), Td(47246, 82186, 52202),
     Td(-1000000, 0, 0), Td(-MaxTimedeltaDays, 0, 0),
     Td(MaxTimedeltaDays, SEC_PER_DAY - 1, MUSECONDS_PER_SEC - 1)}

ScalarElems ==
    {Elem(ty, td) : ty \in ElemTypes,
                    td \in CodecSmallDurations \cup CodecLargeDurations}
    \cup {NaTElem(ty) : ty \in NaTTypes}

\* the elements of the sequences converted
SeqElems(ty) ==
    {Elem(ty, OneDay), Elem(ty, Td(1, 12 * SEC_PER_HOUR, 0))}
    \cup (IF ty \in NaTTypes THEN {NaTElem(ty)} ELSE {})

SeqsOf(S, n) == UNION {[1..k -> S] : k \in 0..n}

DurationInput(iterable, elems) ==
    [kind |-> "durations", iterable |-> iterable, elems |-> elems,
     vals |-> <<>>]

CoordInput(iterable, vals) ==
    [kind |-> "coords", iterable |-> iterable, elems |-> <<>>, vals |-> vals]

\* a scalar, or a sequence of elements of one type (the empty one included)
DurationInputs ==
    {DurationInput(FALSE, <<e>>) : e \in ScalarElems}
    \cup UNION {{DurationInput(TRUE, q) : q \in SeqsOf(SeqElems(ty), MaxSeqLen)} :
                    ty \in ElemTypes}

FOne == FFromBig(1, <<1>>)
FOneAndHalf == FDivSmall(FFromBig(1, <<3>>), 2)

\* day counts handed to num2timedelta
CoordInputs ==
    {CoordInput(FALSE, <<x>>) : x \in {FNaN, FOne, FOneAndHalf}}
    \cup {CoordInput(TRUE, q) : q \in SeqsOf({FNaN, FOneAndHalf}, MaxSeqLen)}

InitCodec ==
    /\ intervald = DefaultIntervald
    /\ maxticks = DefaultMaxticks
    /\ minticks = DefaultMinticks
    /\ freq = OneDay
    /\ located = "none"
    /\ fixed = NoFixed
    /\ formatter = NoFormatter
    /\ axis = NoAxis
    /\ concise = NoConcise
    /\ autofmt = NoAutoFmt
    /\ converter = NoConverter
    /\ host = NativeHost
    /\ timple = NoTimple
    /\ op = "input"
    /\ arg \in DurationInputs \cup CoordInputs
    /\ ret = <<>>

\* timedelta2num(t) on the input drawn
Timedelta2numCall ==
    /\ op = "input"
    /\ arg.kind = "durations"
    /\ op' = "timedelta2num"
    /\ ret' = Timedelta2numArray(arg)
    /\ UNCHANGED <<extVars, autoVars, fixed, fmtVars, arg>>

\* num2timedelta(x) on the input drawn
Num2timedeltaCall ==
    /\ op = "input"
    /\ arg.kind = "coords"
    /\ op' = "num2timedelta"
    /\ ret' = Num2timedelta(arg)
    /\ UNCHANGED <<extVars, autoVars, fixed, fmtVars, arg>>

\* num2timedelta(timedelta2num(t)): the day counts returned are converted
\* back
RoundTrip ==
    /\ op = "timedelta2num"
    /\ ret.err = ""
    /\ op' = "roundtrip"
    /\ ret' = Num2timedelta(ret)
    /\ UNCHANGED <<extVars, autoVars, fixed, fmtVars, arg>>

NextCodec ==
    \/ Timedelta2numCall
    \/ Num2timedeltaCall
    \/ RoundTrip

SpecCodec == InitCodec /\ [][NextCodec]_vars

(***************************************************************************)
(* Claims about the duration codec (SpecCodec).                            *)
(***************************************************************************)
\* timedelta2num of one element alone
ScalarDayCount(e) == Timedelta2numArray(DurationInput(FALSE, <<e>>)).vals[1]

\* the float64 of a whole number of days
WholeDays(td) ==
    FFromBig(IF td.days < 0 THEN -1 ELSE 1,
             BFromInt(IF td.days < 0 THEN -td.days ELSE td.days))

IsDuration(x) ==
    /\ x.days \in (-MaxTimedeltaDays)..MaxTimedeltaDays
    /\ x.seconds \in 0..(SEC_PER_DAY - 1)
    /\ x.microseconds \in 0..(MUSECONDS_PER_SEC - 1)

\* C12: NaT stability: timedelta2num maps every missing element to NaN,
\* alone or inside a sequence, and leaves the other elements' values
\* intact; num2timedelta maps NaN to the missing sentinel, not to a finite
\* duration and not to an error.
C12_NaTStability ==
    /\ op = "timedelta2num" =>
          \A i \in 1..Len(arg.elems) :
              IF arg.elems[i].nat
              THEN FIsNaN(ret.vals[i])
              ELSE ret.vals[i] = ScalarDayCount(arg.elems[i])
    /\ op = "num2timedelta" =>
          /\ ret.err = ""
          /\ \A i \in 1..Len(arg.vals) :
                FIsNaN(arg.vals[i]) => ~IsDuration(ret.tds[i])

\* C13: round trip: for every finite duration d within 10^9 days,
\* num2timedelta(timedelta2num(d)) is d to the microsecond.
C13_RoundTrip ==
    (op = "roundtrip" /\ \A i \in 1..Len(arg.elems) : ~arg.elems[i].nat) =>
        /\ ret.err = ""
        /\ \A i \in 1..Len(arg.elems) : ret.tds[i] = arg.elems[i].td

(***************************************************************************)
(* TimedeltaFormatter.  Tick coordinates are exact day counts; the format  *)
(* strings are character sequences (callables are not modelled), and       *)
(* usetex is off.                                                          *)
(***************************************************************************)
NegInf == [kind |-> "neginf", val |-> Zero]

\* x < y for the entries of an axis interval
CoordLess(x, y) ==
    IF x.kind = "neginf" THEN y.kind # "neginf"
    ELSE IF x.kind = "inf" THEN FALSE
    ELSE IF y.kind = "neginf" THEN FALSE
    ELSE IF y.kind = "inf" THEN TRUE
    ELSE TdLess(x.val, y.val)

\* min(seq) for a non-empty sequence of day counts
SeqMinTd(values) ==
    CHOOSE x \in {values[i] : i \in 1..Len(values)} :
        \A j \in 1..Len(values) : ~TdLess(values[j], x)

\* the decimals round(ref, 13) keeps
RoundDigits == 13

\* 10^n, six decimals at a time
RECURSIVE BPow10(_)
BPow10(n) ==
    IF n = 0 THEN <<1>>
    ELSE IF n >= 6 THEN BMulSmall(BPow10(n - 6), MUSECONDS_PER_SEC)
    ELSE BMulSmall(BPow10(n - 1), 10)

\* round(ref, 13): ref is days + (seconds * 10^6 + microseconds) / (864 *
\* 10^8) days, so its 13-decimal fraction is the nearest integer to
\* (seconds * 10^6 + microseconds) * 10^5 / 864 (a tie cannot occur: 10^5 k
\* is never 432 modulo 864).  The result is days + frac * 10^-13.
Round13(ref) ==
    LET us == BAdd(BMulSmall(BFromInt(ref.seconds), MUSECONDS_PER_SEC),
                   BFromInt(ref.microseconds))
        d == BDivSmall(BMulSmall(us, 100000), 864)
    IN  [days |-> ref.days,
         frac |-> IF 2 * d.r > 864 THEN BAdd(d.q, <<1>>) ELSE d.q]

\* floor(frac * 10^-13 * factor): the whole units below the fraction
RECURSIVE BDivPow10(_, _)
BDivPow10(a, n) ==
    IF n = 0 \/ a = <<>> THEN a
    ELSE IF n >= 6 THEN BDivPow10(BDivSmall(a, MUSECONDS_PER_SEC).q, n - 6)
    ELSE BDivPow10(BDivSmall(a, 10).q, n - 1)

FloorUnits(frac, factor) ==
    BToInt(BDivPow10(BMulSmall(frac, factor), RoundDigits))

\* the units _offset_values knows, with their factors
OffsetUnits == {"days", "hours", "minutes", "seconds"}

OffsetFactor(unit) ==
    CASE unit = "days" -> 1
      [] unit = "hours" -> HOURS_PER_DAY
      [] unit = "minutes" -> MINUTES_PER_DAY
      [] unit = "seconds" -> SEC_PER_DAY

\* math.floor(ref * factor) / factor for the rounded ref
FloorToUnit(rounded, unit) ==
    Td(rounded.days,
       FloorUnits(rounded.frac, OffsetFactor(unit))
            * (SEC_PER_DAY \div OffsetFactor(unit)),
       0)

\* a reference that is the lesser of the two
OffsetRefLesser(ax, values) ==
    LET ref == SeqMinTd(values)
        data_ref == IF CoordLess(ax.data[2], ax.data[1])
                    THEN ax.data[2] ELSE ax.data[1]
    IN  IF ~ax.attached THEN ref
        ELSE IF CoordLess(data_ref, Fin(ref)) /\ isfinite(data_ref)
             THEN data_ref.val ELSE ref

\* the reference value before it is rounded
OffsetRef(ax, values) ==
    LET ref == SeqMinTd(values)
        data_ref == IF CoordLess(ax.data[2], ax.data[1])
                    THEN ax.data[2] ELSE ax.data[1]
    IN  IF ~ax.attached THEN ref
        ELSE IF CoordLess(Fin(ref), data_ref) THEN data_ref.val ELSE ref

\* _offset_values accepting every base unit (microseconds: no flooring)
OffsetValuesAllUnits(f, ax, values) ==
    IF Len(values) = 0 \/ f.offset_on \notin BaseUnitSet
    THEN [err |-> "ValueError", values |-> <<>>, offset |-> Zero,
          ref |-> Zero]
    ELSE LET ref == OffsetRef(ax, values)
             offset == IF f.offset_on \in OffsetUnits
                       THEN FloorToUnit(Round13(ref), f.offset_on)
                       ELSE ref
         IN  [err |-> "", offset |-> offset, ref |-> ref,
              values |-> [i \in 1..Len(values) |-> TdSub(values[i], offset)]]

\* _offset_values that returns the values as they came
OffsetValuesNoShift(f, ax, values) ==
    IF Len(values) = 0 \/ f.offset_on \notin OffsetUnits
    THEN [err |-> "ValueError", values |-> <<>>, offset |-> Zero,
          ref |-> Zero]
    ELSE LET ref == OffsetRef(ax, values)
             offset == FloorToUnit(Round13(ref), f.offset_on)
         IN  [err |-> "", offset |-> offset, ref |-> ref, values |-> values]

\* TimedeltaFormatter._offset_values: min() of an empty sequence and an
\* unknown offset_on raise ValueError
OffsetValues(f, ax, values) ==
    IF Len(values) = 0 \/ f.offset_on \notin OffsetUnits
    THEN [err |-> "ValueError", values |-> <<>>, offset |-> Zero,
          ref |-> Zero]
    ELSE LET ref == OffsetRef(ax, values)
             offset == FloorToUnit(Round13(ref), f.offset_on)
         IN  [err |-> "", offset |-> offset, ref |-> ref,
              values |-> [i \in 1..Len(values) |-> TdSub(values[i], offset)]]

\* strftdnum(td_num, fmt_str)
Strftdnum(td_num, fmt_str) == Strftimedelta(td_num, fmt_str)

\* the labels of the values, or the first error
FormatLabels(fmt, values) ==
    LET r == [i \in 1..Len(values) |-> Strftdnum(values[i], fmt)]
    IN  IF \E i \in 1..Len(r) : r[i].err # ""
        THEN [err |-> "ValueError", labels |-> <<>>]
        ELSE [err |-> "", labels |-> [i \in 1..Len(r) |-> r[i].str]]

\* __init__ without the check of offset_fmt against offset_on
FormatterInitNoCheck(fmt, offset_on, offset_fmt) ==
    [state |-> "constructed", fmt |-> fmt, offset_on |-> offset_on,
     offset_fmt |-> offset_fmt, offset_string |-> <<>>]

\* TimedeltaFormatter.__init__
FormatterInit(fmt, offset_on, offset_fmt) ==
    IF offset_on = NoUnit /\ offset_fmt # NoFmt
    THEN [NoFormatter EXCEPT !.state = "ValueError"]
    ELSE [state |-> "constructed", fmt |-> fmt, offset_on |-> offset_on,
          offset_fmt |-> offset_fmt, offset_string |-> <<>>]

\* the offset string left as it was
KeepOffsetString(f, offset_str) == f.offset_string

\* self.offset_string extended by offset_str
AppendOffsetString(f, offset_str) == f.offset_string \o offset_str

\* self.offset_string = offset_str
StoreOffsetString(f, offset_str) == offset_str

\* TimedeltaFormatter.format_ticks: what it returns or raises, the offset it
\* applied, and offset_string as the call leaves it
FormatTicks(f, ax, values) ==
    LET ov == IF f.offset_on # NoUnit
              THEN OffsetValues(f, ax, values)
              ELSE [err |-> "", values |-> values, offset |-> Zero,
                    ref |-> Zero]
        result == FormatLabels(f.fmt, ov.values)
        offset_str == Strftdnum(ov.offset, f.offset_fmt)
        failed == [err |-> "ValueError", labels |-> <<>>,
                   applied |-> FALSE, offset |-> Zero, ref |-> Zero,
                   offset_string |-> f.offset_string]
    IN  IF ov.err # "" THEN failed
        ELSE IF result.err # "" THEN failed
        ELSE IF f.offset_fmt # NoFmt /\ offset_str.err # "" THEN failed
        ELSE [err |-> "", labels |-> result.labels,
              applied |-> f.offset_on # NoUnit,
              offset |-> ov.offset, ref |-> ov.ref,
              offset_string |->
                  IF f.offset_fmt # NoFmt
                  THEN StoreOffsetString(f, offset_str.str)
                  ELSE f.offset_string]

(***************************************************************************)
(* TimedeltaFormatter: inputs and operations.                              *)
(***************************************************************************)
MaxTicks == 2

\* "%H:%m" and a format with an unknown token
FmtHoursMinutes == <<"%", "H", ":", "%", "m">>
FmtUnknownToken == <<"%", "x">>
\* "%d %day, %h:%m:%s"
FmtOffset ==
    <<"%", "d", " ", "%", "d", "a", "y", ",", " ", "%", "h", ":", "%", "m",
      ":", "%", "s">>

TickFmts == {FmtHoursMinutes, FmtUnknownToken}
OffsetFmts == {NoFmt, FmtOffset, FmtUnknownToken}
OffsetOns == {NoUnit, "weeks"} \cup BaseUnitSet

TickStarts ==
    {Td(100, 2 * SEC_PER_HOUR, 0),
     Td(100, 3 * SEC_PER_HOUR + 39 * SEC_PER_MIN + 57, 0),
     Td(-1, 12 * SEC_PER_HOUR, 0)}

TickSteps == {Td(0, 3, 0), Td(0, 4 * SEC_PER_HOUR, 0)}

\* evenly spaced ticks, as a locator returns them, and no tick at all
TickValues ==
    {[i \in 1..n |-> TdAdd(start, TdScale(i - 1, step))] :
        start \in TickStarts, step \in TickSteps, n \in 0..MaxTicks}
    \cup {<<Td(100, 13199, 999900), Td(100, 13200, 0)>>}

\* data intervals of an axis: no data yet, data that starts inside the
\* ticks' range, data that starts below it
DataIntervals ==
    {<<Inf, NegInf>>,
     <<Fin(Td(100, 3 * SEC_PER_HOUR, 0)), Fin(Td(103, 0, 0))>>,
     <<Fin(Td(-5, 0, 0)), Fin(Td(103, 0, 0))>>}

\* the view interval of the axis
AxisView == <<Fin(Td(100, 0, 0)), Fin(Td(101, 0, 0))>>

AxisInputs ==
    {[attached |-> TRUE, data |-> d, view |-> AxisView] : d \in DataIntervals}

InitFormatter ==
    /\ intervald = DefaultIntervald
    /\ maxticks = DefaultMaxticks
    /\ minticks = DefaultMinticks
    /\ freq = OneDay
    /\ located = "none"
    /\ fixed = NoFixed
    /\ formatter = NoFormatter
    /\ axis = NoAxis
    /\ concise = NoConcise
    /\ autofmt = NoAutoFmt
    /\ converter = NoConverter
    /\ host = NativeHost
    /\ timple = NoTimple
    /\ op = "init"
    /\ arg = <<>>
    /\ ret = <<>>

\* TimedeltaFormatter(fmt, offset_on=..., offset_fmt=...)
FormatterConstruct(fmt, offset_on, offset_fmt) ==
    /\ formatter.state = "none"
    /\ formatter' = FormatterInit(fmt, offset_on, offset_fmt)
    /\ op' = "formatter_init"
    /\ arg' = <<fmt, offset_on, offset_fmt>>
    /\ ret' = formatter'.state
    /\ UNCHANGED <<extVars, autoVars, fixed, axis, concise>>

\* formatter.set_axis(axis)
SetAxis(ax) ==
    /\ formatter.state = "constructed"
    /\ axis' = ax
    /\ op' = "set_axis"
    /\ arg' = <<>>
    /\ ret' = <<>>
    /\ UNCHANGED <<extVars, autoVars, fixed, formatter, concise>>

\* format_ticks that drops the offset string when it raises
FormatTicksCallClearing(values) ==
    /\ formatter.state = "constructed"
    /\ \E r \in {FormatTicks(formatter, axis, values)} :
        /\ formatter' =
              [formatter EXCEPT !.offset_string =
                  IF r.err # "" THEN <<>> ELSE r.offset_string]
        /\ ret' = r
    /\ op' = "format_ticks"
    /\ arg' = values
    /\ UNCHANGED <<extVars, autoVars, fixed, axis, concise>>

\* formatter.format_ticks(values)
FormatTicksCall(values) ==
    /\ formatter.state = "constructed"
    /\ \E r \in {FormatTicks(formatter, axis, values)} :
        /\ formatter' = [formatter EXCEPT !.offset_string = r.offset_string]
        /\ ret' = r
    /\ op' = "format_ticks"
    /\ arg' = values
    /\ UNCHANGED <<extVars, autoVars, fixed, axis, concise>>

\* formatter.get_offset()
GetOffset ==
    /\ formatter.state = "constructed"
    /\ op' = "get_offset"
    /\ arg' = <<>>
    /\ ret' = formatter.offset_string
    /\ UNCHANGED <<extVars, autoVars, fixed, fmtVars>>

NextFormatter ==
    \/ \E fmt \in TickFmts, offset_on \in OffsetOns, offset_fmt \in OffsetFmts :
            FormatterConstruct(fmt, offset_on, offset_fmt)
    \/ \E ax \in AxisInputs : SetAxis(ax)
    \/ \E values \in TickValues : FormatTicksCall(values)
    \/ GetOffset

SpecFormatter == InitFormatter /\ [][NextFormatter]_vars

(***************************************************************************)
(* Claims about TimedeltaFormatter (SpecFormatter).                        *)
(***************************************************************************)
\* a format_ticks call that returned, with an offset applied
OffsetPass == op = "format_ticks" /\ ret.err = "" /\ ret.applied

\* the minimum of the axis data interval
DataMin ==
    IF CoordLess(axis.data[2], axis.data[1]) THEN axis.data[2] ELSE axis.data[1]

\* max(DataMin, min(coords)), min(coords) alone without an axis
GreaterRef(coords) ==
    IF axis.attached /\ CoordLess(Fin(SeqMinTd(coords)), DataMin)
    THEN DataMin.val
    ELSE SeqMinTd(coords)

\* the length of one offset unit, in seconds
Granularity(unit) ==
    CASE unit = "days" -> SEC_PER_DAY
      [] unit = "hours" -> SEC_PER_HOUR
      [] unit = "minutes" -> SEC_PER_MIN
      [] unit = "seconds" -> 1

\* r is ref to 13 decimals: they differ by at most half of 10^-13 day, and
\* r does not reach the next day
IsRounded13(ref, r) ==
    LET exact == BMulSmall(BAdd(BMulSmall(BFromInt(ref.seconds),
                                          MUSECONDS_PER_SEC),
                                BFromInt(ref.microseconds)), 200000)
        got == BMulSmall(r.frac, 2 * 864)
        diff == IF BCmp(exact, got) = 1 THEN BSub(exact, got)
                ELSE BSub(got, exact)
    IN  /\ r.days = ref.days
        /\ BCmp(diff, BFromInt(864)) <= 0
        /\ BCmp(r.frac, BPow10(RoundDigits)) = -1

\* the day count td is at most the rounded value r / below it
TdAtMost(td, r) ==
    /\ td.microseconds = 0
    /\ \/ td.days < r.days
       \/ /\ td.days = r.days
          /\ BCmp(BMulSmall(BPow10(RoundDigits), td.seconds),
                  BMulSmall(r.frac, SEC_PER_DAY)) <= 0

TdAbove(td, r) ==
    /\ td.microseconds = 0
    /\ \/ td.days > r.days
       \/ /\ td.days = r.days
          /\ BCmp(BMulSmall(BPow10(RoundDigits), td.seconds),
                  BMulSmall(r.frac, SEC_PER_DAY)) = 1

\* C14: format_ticks with offset_on set: the reference is max(minimum of
\* the axis data interval, min(coords)) (min(coords) without an axis),
\* rounded to 13 decimals; the offset is a multiple of the unit's
\* granularity with offset <= reference < offset + granularity; every label
\* is the rendering of coord - offset with that one offset.
C14_OffsetAndLabels ==
    OffsetPass =>
        /\ ret.ref = GreaterRef(arg)
        /\ IsRounded13(ret.ref, Round13(ret.ref))
        /\ ret.offset.seconds % Granularity(formatter.offset_on) = 0
        /\ TdAtMost(ret.offset, Round13(ret.ref))
        /\ TdAbove(TdAdd(ret.offset,
                         Td(0, Granularity(formatter.offset_on), 0)),
                   Round13(ret.ref))
        /\ Len(ret.labels) = Len(arg)
        /\ \A i \in 1..Len(arg) :
              ret.labels[i] =
                  Strftimedelta(TdSub(arg[i], ret.offset), formatter.fmt).str

C14_Witness ==
    /\ OffsetPass
    /\ formatter.offset_on = "hours"
    /\ axis.attached
    /\ arg = <<Td(100, 2 * SEC_PER_HOUR, 0), Td(100, 6 * SEC_PER_HOUR, 0)>>
    /\ ret.ref = Td(100, 3 * SEC_PER_HOUR, 0)
    /\ ret.offset = Td(100, 3 * SEC_PER_HOUR, 0)
    /\ ret.labels = <<<<"-", "1", ":", "0", "0">>, <<"3", ":", "0", "0">>>>

\* the lesser of the data minimum and the view minimum
LesserRef ==
    IF isfinite(DataMin) /\ TdLess(DataMin.val, axis.view[1].val)
    THEN DataMin.val
    ELSE axis.view[1].val

\* C15 as stated: on every format pass the offset is computed from the
\* lesser of the axis's visible data minimum and the view minimum.
C15_RefIsLesser ==
    (OffsetPass /\ axis.attached) =>
        /\ ret.ref = LesserRef
        /\ ret.offset = FloorToUnit(Round13(LesserRef), formatter.offset_on)

\* C15 as the code has it: on every format pass the offset is computed anew
\* from the greater of the axis's data minimum and the least coordinate of
\* the pass (the least coordinate alone without an axis); the view interval
\* is not read.
C15_RefIsGreater ==
    [][(op' = "format_ticks" /\ ret'.err = "" /\ ret'.applied) =>
          /\ ret'.ref = IF axis.attached
                           /\ CoordLess(Fin(SeqMinTd(arg')), DataMin)
                        THEN DataMin.val
                        ELSE SeqMinTd(arg')
          /\ ret'.offset = FloorToUnit(Round13(ret'.ref), formatter.offset_on)
      ]_vars

C15_Witness ==
    /\ OffsetPass
    /\ axis.attached
    /\ isfinite(DataMin)
    /\ TdLess(SeqMinTd(arg), DataMin.val)
    /\ TdLess(axis.view[1].val, DataMin.val)
    /\ ret.ref = DataMin.val
    /\ formatter.offset_string # <<>>

\* C16: with an offset format configured, after a format_ticks call
\* get_offset returns the rendering of the offset used in that call, until
\* the next format_ticks call overwrites it; with none configured,
\* get_offset returns the empty string before and after every call, and the
\* offset is still applied to the ticks when offset_on is set.
C16_GetOffset ==
    /\ [](/\ (formatter.state = "constructed" /\ formatter.offset_fmt = NoFmt)
                => formatter.offset_string = <<>>
          /\ (op = "format_ticks" /\ ret.err = ""
                /\ formatter.offset_fmt # NoFmt)
                => formatter.offset_string =
                       Strftimedelta(ret.offset, formatter.offset_fmt).str
          /\ (op = "format_ticks" /\ ret.err = "")
                => ret.applied = (formatter.offset_on # NoUnit)
          /\ op = "get_offset" => ret = formatter.offset_string)
    /\ [][(formatter.state = "constructed" /\ op' # "format_ticks")
              => formatter'.offset_string = formatter.offset_string]_vars

C16_Witness ==
    /\ op = "get_offset"
    /\ formatter.offset_on = "minutes"
    /\ ret = <<"1", "0", "0", " ", "d", "a", "y", "s", ",", " ",
               "0", "3", ":", "3", "9", ":", "0", "0">>

\* C17: construction with an offset format but no offset_on fails with
\* ValueError; every other combination constructs.
C17_OffsetFmtNeedsOffsetOn ==
    op = "formatter_init" =>
        IF arg[2] = NoUnit /\ arg[3] # NoFmt
        THEN ret = "ValueError" /\ formatter.state = "ValueError"
        ELSE /\ ret = "constructed"
             /\ formatter.fmt = arg[1]
             /\ formatter.offset_on = arg[2]
             /\ formatter.offset_fmt = arg[3]
             /\ formatter.offset_string = <<>>

C17_Witness ==
    /\ op = "formatter_init"
    /\ arg[2] = NoUnit
    /\ arg[3] = FmtOffset
    /\ ret = "ValueError"

\* a formatter whose format strings render, called with at least one tick
RenderablePass ==
    /\ op = "format_ticks"
    /\ Len(arg) > 0
    /\ formatter.fmt = FmtHoursMinutes
    /\ formatter.offset_fmt \in {NoFmt, FmtOffset}

\* C18 as stated: each base unit name is accepted as offset_on: format_ticks
\* computes an offset at that unit's granularity and returns labels without
\* raising.
C18_AllBaseUnits ==
    (RenderablePass /\ formatter.offset_on \in BaseUnitSet) =>
        ret.err = "" /\ ret.applied

\* C18 as the code has it: days, hours, minutes and seconds are accepted;
\* with microseconds the formatter constructs, and format_ticks raises
\* ValueError.
C18_FourUnits ==
    /\ (RenderablePass /\ formatter.offset_on \in OffsetUnits) =>
          /\ ret.err = ""
          /\ ret.applied
          /\ ret.offset.seconds % Granularity(formatter.offset_on) = 0
    /\ (op = "format_ticks" /\ formatter.offset_on = "microseconds") =>
          ret.err = "ValueError"
    /\ (op = "formatter_init" /\ arg[2] = "microseconds") =>
          ret = "constructed"

C18_Witness ==
    /\ RenderablePass
    /\ formatter.offset_on = "microseconds"
    /\ ret.err = "ValueError"

(***************************************************************************)
(* ConciseTimedeltaFormatter.                                              *)
(***************************************************************************)
\* an optional table argument: None, or a list
NoTable == [given |-> FALSE, table |-> <<>>]
Table(t) == [given |-> TRUE, table |-> t]

\* "%d %day", "%H:00", "%H:%m", "%M:%s.0", "%S.%ms%us"
ConciseDefaultFormats ==
    <<<<"%", "d", " ", "%", "d", "a", "y">>,
      <<"%", "H", ":", "0", "0">>,
      <<"%", "H", ":", "%", "m">>,
      <<"%", "M", ":", "%", "s", ".", "0">>,
      <<"%", "S", ".", "%", "m", "s", "%", "u", "s">>>>

\* (None, None), ("%d %day", "days"), ("%d %day", "days"),
\* ("%d %day, %h:00", "hours"), ("%d %day, %h:%m", "minutes")
ConciseDefaultOffsetFormats ==
    <<<<NoFmt, NoUnit>>,
      <<<<"%", "d", " ", "%", "d", "a", "y">>, "days">>,
      <<<<"%", "d", " ", "%", "d", "a", "y">>, "days">>,
      <<<<"%", "d", " ", "%", "d", "a", "y", ",", " ", "%", "h", ":", "0",
          "0">>, "hours">>,
      <<<<"%", "d", " ", "%", "d", "a", "y", ",", " ", "%", "h", ":", "%",
          "m">>, "minutes">>>>

\* the number of entries __init__ compares len(formats) with
FormatsLenChecked == 6

\* the number of entries __init__ compares len(offset_formats) with
OffsetFormatsLenChecked == 5

\* ConciseTimedeltaFormatter.__init__: a table that is None or empty is
\* replaced by the default
ConciseInit(locator, formats, offset_formats, show_offset) ==
    IF \/ (formats.given /\ Len(formats.table) # 0
                /\ Len(formats.table) # FormatsLenChecked)
       \/ (offset_formats.given /\ Len(offset_formats.table) # 0
                /\ Len(offset_formats.table) # OffsetFormatsLenChecked)
    THEN [NoConcise EXCEPT !.state = "ValueError"]
    ELSE [state |-> "constructed",
          locator |-> locator,
          formats |-> IF formats.given /\ Len(formats.table) # 0
                      THEN formats.table ELSE ConciseDefaultFormats,
          offset_formats |->
              IF offset_formats.given /\ Len(offset_formats.table) # 0
              THEN offset_formats.table ELSE ConciseDefaultOffsetFormats,
          show_offset |-> show_offset,
          offset_str |-> <<>>]

\* float(self._locator._get_unit()); 1 for a locator without _get_unit
LocatorUnitScale(c) == IF c.locator = "auto" THEN freq ELSE OneDay

\* ConciseTimedeltaFormatter.format_ticks: the level, the formats chosen,
\* what the TimedeltaFormatter built from them returns or raises, and
\* offset_str as the call leaves it
ConciseFormatTicks(c, ax, values) ==
    LET scale == LocatorUnitScale(c)
        i == LevelIndex(scale)
        fmt == c.formats[i]
        offset_fmt == c.offset_formats[i][1]
        offset_on == c.offset_formats[i][2]
        f == FormatterInit(fmt, offset_on, offset_fmt)
        r == FormatTicks(f, ax, values)
        failed == [err |-> "ValueError", level |-> i, fmt |-> fmt,
                   offset_fmt |-> offset_fmt, offset_on |-> offset_on,
                   labels |-> <<>>, offset_str |-> c.offset_str]
    IN  IF f.state # "constructed" THEN failed
        ELSE IF r.err # "" THEN failed
        ELSE [err |-> "", level |-> i, fmt |-> fmt,
              offset_fmt |-> offset_fmt, offset_on |-> offset_on,
              labels |-> r.labels,
              offset_str |-> IF c.show_offset THEN r.offset_string
                             ELSE c.offset_str]

(***************************************************************************)
(* ConciseTimedeltaFormatter on an AutoTimedeltaLocator: inputs and        *)
(* operations.                                                             *)
(***************************************************************************)
MaxExtraFormats == 1

\* a sixth format string
FmtSixth == <<"%", "d">>

\* no offset on any level
NoOffsetFormats == [i \in 1..5 |-> <<NoFmt, NoUnit>>]

FormatsArgs ==
    {NoTable, Table(<<>>), Table(ConciseDefaultFormats),
     Table(SubSeq(ConciseDefaultFormats, 1, 4))}
    \cup {Table(ConciseDefaultFormats \o [i \in 1..k |-> FmtSixth]) :
            k \in 1..MaxExtraFormats}

OffsetFormatsArgs ==
    {NoTable, Table(NoOffsetFormats),
     Table(SubSeq(ConciseDefaultOffsetFormats, 1, 4)),
     Table(ConciseDefaultOffsetFormats \o <<<<NoFmt, NoUnit>>>>)}

\* the locator handed to the formatter: the AutoTimedeltaLocator, or a
\* locator of the host without _get_unit
LocatorArgs == {"auto", "other"}

\* one view interval for each unit the locator selects
ConciseViews ==
    {<<ViewStart, TdAdd(ViewStart, s)>> :
        s \in {Td(20, 0, 0), Td(0, 8 * SEC_PER_HOUR, 0),
               Td(0, 30 * SEC_PER_MIN, 0), Td(0, 30, 0), Td(0, 0, 600)}}

ConciseTicks ==
    {<<>>,
     <<Td(100, 0, 0), Td(120, 0, 0)>>,
     <<Td(100, 13197, 0), Td(100, 13200, 0)>>,
     <<Td(100, 13199, 999900), Td(100, 13200, 0)>>}

InitConcise ==
    /\ intervald = DefaultIntervald
    /\ maxticks = DefaultMaxticks
    /\ minticks = DefaultMinticks
    /\ freq = OneDay
    /\ located = "none"
    /\ fixed = NoFixed
    /\ formatter = NoFormatter
    /\ axis = NoAxis
    /\ concise = NoConcise
    /\ autofmt = NoAutoFmt
    /\ converter = NoConverter
    /\ host = NativeHost
    /\ timple = NoTimple
    /\ op = "init"
    /\ arg = <<>>
    /\ ret = <<>>

\* ConciseTimedeltaFormatter(locator, formats, offset_formats, show_offset)
ConciseConstruct(locator, formats, offset_formats, show_offset) ==
    /\ concise.state = "none"
    /\ concise' = ConciseInit(locator, formats, offset_formats, show_offset)
    /\ op' = "concise_init"
    /\ arg' = <<formats, offset_formats>>
    /\ ret' = concise'.state
    /\ UNCHANGED <<extVars, autoVars, fixed, formatter, axis>>

\* formatter.set_axis(axis)
ConciseSetAxis(ax) ==
    /\ concise.state = "constructed"
    /\ axis' = ax
    /\ op' = "set_axis"
    /\ arg' = <<>>
    /\ ret' = <<>>
    /\ UNCHANGED <<extVars, autoVars, fixed, formatter, concise>>

\* formatter.format_ticks(values)
ConciseFormatTicksCall(values) ==
    /\ concise.state = "constructed"
    /\ \E r \in {ConciseFormatTicks(concise, axis, values)} :
        /\ concise' = [concise EXCEPT !.offset_str = r.offset_str]
        /\ ret' = r
    /\ op' = "concise_format_ticks"
    /\ arg' = values
    /\ UNCHANGED <<extVars, autoVars, fixed, formatter, axis>>

\* formatter.get_offset()
ConciseGetOffset ==
    /\ concise.state = "constructed"
    /\ op' = "concise_get_offset"
    /\ arg' = <<>>
    /\ ret' = concise.offset_str
    /\ UNCHANGED <<extVars, autoVars, fixed, fmtVars>>

\* formatter.show_offset = b
ConciseSetShowOffset(b) ==
    /\ concise.state = "constructed"
    /\ concise' = [concise EXCEPT !.show_offset = b]
    /\ op' = "set_show_offset"
    /\ arg' = b
    /\ ret' = <<>>
    /\ UNCHANGED <<extVars, autoVars, fixed, formatter, axis>>

NextConcise ==
    \/ \E locator \in LocatorArgs, formats \in FormatsArgs,
          offset_formats \in OffsetFormatsArgs, show_offset \in BOOLEAN :
            ConciseConstruct(locator, formats, offset_formats, show_offset)
    \/ \E view \in ConciseViews : Call(view)
    \/ \E ax \in AxisInputs : ConciseSetAxis(ax)
    \/ \E values \in ConciseTicks : ConciseFormatTicksCall(values)
    \/ ConciseGetOffset
    \/ \E b \in BOOLEAN : ConciseSetShowOffset(b)

SpecConcise == InitConcise /\ [][NextConcise]_vars

(***************************************************************************)
(* Claims about ConciseTimedeltaFormatter (SpecConcise).                   *)
(***************************************************************************)
\* the number of entries the documentation asks of a table
TableEntries == 5

\* a table argument the claim accepts: not given, or of exactly 5 entries
AcceptableTable(t) == ~t.given \/ Len(t.table) = TableEntries

\* C19: a formats table and an offset_formats table are each accepted at
\* construction if and only if they have exactly 5 entries (or are not
\* given, and then the defaults are used); a table of any other length is
\* rejected with ValueError at construction.
C19_TablesOfFive ==
    op = "concise_init" =>
        IF AcceptableTable(arg[1]) /\ AcceptableTable(arg[2])
        THEN /\ ret = "constructed"
             /\ concise.formats = IF arg[1].given THEN arg[1].table
                                  ELSE ConciseDefaultFormats
             /\ concise.offset_formats = IF arg[2].given THEN arg[2].table
                                         ELSE ConciseDefaultOffsetFormats
        ELSE ret = "ValueError"

\* the level of the unit the locator selected last (days before the first
\* locate call, and for a locator without a unit)
LocatorLevel ==
    IF concise.locator = "auto" /\ located # "none"
    THEN CHOOSE i \in 1..Len(base_units) : base_units[i] = located
    ELSE 1

\* C20: on every format_ticks call the formatter reads the locator's
\* current unit, maps it to its level i in (days, hours, minutes, seconds,
\* microseconds), and formats with formats[i] and offset_formats[i]; the
\* lookup succeeds for every unit the AutoTimedeltaLocator selects, and a
\* change of the locator's unit between two calls changes the level of the
\* second call.
C20_LevelFollowsLocator ==
    op = "concise_format_ticks" =>
        /\ ret.level = LocatorLevel
        /\ ret.fmt = concise.formats[LocatorLevel]
        /\ <<ret.offset_fmt, ret.offset_on>> =
                concise.offset_formats[LocatorLevel]
        /\ LET f == FormatterInit(ret.fmt, ret.offset_on, ret.offset_fmt)
               r == FormatTicks(f, axis, arg)
           IN  IF f.state = "constructed" /\ r.err = ""
               THEN ret.err = "" /\ ret.labels = r.labels
               ELSE ret.err = "ValueError"

C20_Witness ==
    /\ op = "concise_format_ticks"
    /\ concise.locator = "auto"
    /\ located = "seconds"
    /\ ret.level = 4
    /\ ret.err = ""
    /\ concise.offset_str = <<"1", "0", "0", " ", "d", "a", "y", "s", ",",
                              " ", "0", "3", ":", "0", "0">>
    /\ ret.labels = <<<<"3", "9", ":", "5", "7", ".", "0">>,
                      <<"4", "0", ":", "0", "0", ".", "0">>>>

\* C21: show_offset suppresses the offset whatever is configured: after a
\* format_ticks call made while show_offset is false, get_offset returns
\* the empty string, whatever earlier calls returned.
C21_ShowOffsetSuppresses ==
    (op = "concise_format_ticks" /\ ~concise.show_offset) =>
        concise.offset_str = <<>>

(***************************************************************************)
(* AutoTimedeltaFormatter.  The keys of its scale table are lengths of a   *)
(* tick unit in days, held exactly like the locator's _freq.               *)
(***************************************************************************)
\* "%d %day, %h:%m"
FmtDayHM ==
    <<"%", "d", " ", "%", "d", "a", "y", ",", " ", "%", "h", ":", "%", "m">>

\* "%M:%S", the customisation of the class docstring
FmtMS == <<"%", "M", ":", "%", "S">>

\* keys of the default scale table: 1, 1/HOURS_PER_DAY, 1/MINUTES_PER_DAY,
\* 1/SEC_PER_DAY, 1e3/MUSECONDS_PER_DAY, 1/MUSECONDS_PER_DAY
ScaledKeys ==
    {OneDay, Td(0, SEC_PER_HOUR, 0), Td(0, SEC_PER_MIN, 0), Td(0, 1, 0),
     Td(0, 0, 1000), Td(0, 0, 1)}

\* self.scaled as __init__ fills it
AutoFmtDefaultScaled ==
    [k \in ScaledKeys |->
        CASE k = OneDay -> ConciseDefaultFormats[1]
          [] k = Td(0, SEC_PER_HOUR, 0) -> FmtDayHM
          [] k = Td(0, SEC_PER_MIN, 0) -> FmtDayHM
          [] k = Td(0, 1, 0) -> FmtOffset
          [] k = Td(0, 0, 1000) -> FmtOffset \o <<".", "%", "m", "s">>
          [] k = Td(0, 0, 1) ->
                FmtOffset \o <<".", "%", "m", "s", "%", "u", "s">>]

\* AutoTimedeltaFormatter.__init__
AutoFmtInit(locator, defaultfmt) ==
    [state |-> "constructed", locator |-> locator, defaultfmt |-> defaultfmt,
     scaled |-> AutoFmtDefaultScaled]

\* float(self._locator._get_unit()); 1 for a locator without _get_unit
AutoFmtUnitScale(a) == IF a.locator = "auto" THEN freq ELSE OneDay

\* the format of the greatest key that is >= unit
AutoFmtPickGreatest(scaled, unit, defaultfmt) ==
    LET Q == {k \in DOMAIN scaled : ~TdLess(k, unit)}
    IN  IF Q = {} THEN defaultfmt
        ELSE scaled[CHOOSE k \in Q : \A j \in Q : ~TdLess(k, j)]

\* next((fmt for scale, fmt in sorted(self.scaled.items())
\*       if scale >= locator_unit_scale), self.defaultfmt)
AutoFmtPick(scaled, unit, defaultfmt) ==
    LET Q == {k \in DOMAIN scaled : ~TdLess(k, unit)}
    IN  IF Q = {} THEN defaultfmt
        ELSE scaled[CHOOSE k \in Q : \A j \in Q : ~TdLess(j, k)]

\* AutoTimedeltaFormatter.__call__(x): the format picked and the label the
\* TimedeltaFormatter built on it returns, or the error it raises
AutoFmtFormat(a, x) ==
    LET fmt == AutoFmtPick(a.scaled, AutoFmtUnitScale(a), a.defaultfmt)
        r == Strftdnum(x, fmt)
    IN  [err |-> r.err, fmt |-> fmt, str |-> r.str]

(***************************************************************************)
(* AutoTimedeltaFormatter on an AutoTimedeltaLocator: inputs and           *)
(* operations.                                                             *)
(***************************************************************************)
\* coordinates handed to a formatter one at a time
CallCoords ==
    {Td(1, 12 * SEC_PER_HOUR, 0), Td(100, 13197, 4005), Td(-1, 0, 0)}

DefaultFmtArgs == {FmtDayHM, FmtMS}

\* formatter.scaled[k] = fmt: a key of the table and a new key
EditedScales == {Td(0, SEC_PER_MIN, 0), Td(0, 12 * SEC_PER_HOUR, 0)}

\* keys taken out of the table
DeletedScales == {OneDay, Td(0, SEC_PER_HOUR, 0)}

InitAutoFmt ==
    /\ intervald = DefaultIntervald
    /\ maxticks = DefaultMaxticks
    /\ minticks = DefaultMinticks
    /\ freq = OneDay
    /\ located = "none"
    /\ fixed = NoFixed
    /\ formatter = NoFormatter
    /\ axis = NoAxis
    /\ concise = NoConcise
    /\ autofmt = NoAutoFmt
    /\ converter = NoConverter
    /\ host = NativeHost
    /\ timple = NoTimple
    /\ op = "init"
    /\ arg = <<>>
    /\ ret = <<>>

\* AutoTimedeltaFormatter(locator, defaultfmt)
AutoFmtConstruct(locator, defaultfmt) ==
    /\ autofmt.state = "none"
    /\ autofmt' = AutoFmtInit(locator, defaultfmt)
    /\ op' = "autofmt_init"
    /\ arg' = <<locator, defaultfmt>>
    /\ ret' = <<>>
    /\ UNCHANGED <<autoVars, fixed, fmtVars, converter, host, timple>>

\* formatter.scaled[k] = fmt
EditScaled(k, fmt) ==
    /\ autofmt.state = "constructed"
    /\ autofmt' =
          [autofmt EXCEPT !.scaled =
              [j \in DOMAIN autofmt.scaled \cup {k} |->
                  IF j = k THEN fmt ELSE autofmt.scaled[j]]]
    /\ op' = "edit_scaled"
    /\ arg' = <<k, fmt>>
    /\ ret' = <<>>
    /\ UNCHANGED <<autoVars, fixed, fmtVars, converter, host, timple>>

\* del formatter.scaled[k]
DelScaled(k) ==
    /\ autofmt.state = "constructed"
    /\ k \in DOMAIN autofmt.scaled
    /\ autofmt' =
          [autofmt EXCEPT !.scaled =
              [j \in DOMAIN autofmt.scaled \ {k} |-> autofmt.scaled[j]]]
    /\ op' = "del_scaled"
    /\ arg' = <<k>>
    /\ ret' = <<>>
    /\ UNCHANGED <<autoVars, fixed, fmtVars, converter, host, timple>>

\* formatter(x, pos)
AutoFmtCall(x) ==
    /\ autofmt.state = "constructed"
    /\ op' = "autofmt_call"
    /\ arg' = x
    /\ ret' = AutoFmtFormat(autofmt, x)
    /\ UNCHANGED <<autoVars, fixed, fmtVars, extVars>>

\* formatter.get_offset(): ticker.Formatter.get_offset, which the class
\* does not override
AutoFmtGetOffset ==
    /\ autofmt.state = "constructed"
    /\ op' = "autofmt_get_offset"
    /\ arg' = <<>>
    /\ ret' = <<>>
    /\ UNCHANGED <<autoVars, fixed, fmtVars, extVars>>

NextAutoFmt ==
    \/ \E locator \in LocatorArgs, defaultfmt \in DefaultFmtArgs :
            AutoFmtConstruct(locator, defaultfmt)
    \/ \E view \in ConciseViews : Call(view)
    \/ \E k \in EditedScales : EditScaled(k, FmtMS)
    \/ \E k \in DeletedScales : DelScaled(k)
    \/ \E x \in CallCoords : AutoFmtCall(x)
    \/ AutoFmtGetOffset

SpecAutoFmt == InitAutoFmt /\ [][NextAutoFmt]_vars

(***************************************************************************)
(* Claims about AutoTimedeltaFormatter (SpecAutoFmt).                      *)
(***************************************************************************)
\* the keys of the scale table that are >= the locator's current unit
KeysFromUnit ==
    {k \in DOMAIN autofmt.scaled :
        ~TdLess(k, IF autofmt.locator = "auto" THEN UnitLen(located)
                   ELSE OneDay)}

\* C22: on each call the formatter uses the format of the smallest key of
\* its scale table that is >= the locator's current unit, and the default
\* format if no key qualifies; edits of the table take effect on the next
\* call; get_offset is always empty.
C22_FormatSelection ==
    /\ (op = "autofmt_call" /\ located # "none") =>
          /\ \/ KeysFromUnit = {} /\ ret.fmt = autofmt.defaultfmt
             \/ \E k \in KeysFromUnit :
                    /\ \A j \in KeysFromUnit : j = k \/ TdLess(k, j)
                    /\ ret.fmt = autofmt.scaled[k]
          /\ ret.str = Strftimedelta(arg, ret.fmt).str
    /\ op = "autofmt_get_offset" => ret = <<>>

\* a call after scaled[1 / MINUTES_PER_DAY] = "%M:%S" and a locate call that
\* selected minutes
C22_Witness ==
    /\ op = "autofmt_call"
    /\ located = "minutes"
    /\ autofmt.scaled[Td(0, SEC_PER_MIN, 0)] = FmtMS
    /\ arg = Td(1, 12 * SEC_PER_HOUR, 0)
    /\ ret.str = <<"7", "2", "0", ":", "1", "2", "9", "6", "0", "0">>

(***************************************************************************)
(* An axis formatted by one formatter, explicit or concise.                *)
(***************************************************************************)
NextFormatters ==
    \/ concise.state = "none" /\ NextFormatter
    \/ formatter.state = "none" /\ NextConcise

SpecFormatters == InitFormatter /\ [][NextFormatters]_vars

\* C23: format_ticks is idempotent for the explicit and the concise
\* formatter: the call repeated with the same values, on the same axis and
\* locator state, returns the same labels and leaves the same offset string.
C23_FormatTicksIdempotent ==
    /\ op = "format_ticks" =>
          LET again == FormatTicks(formatter, axis, arg)
          IN  /\ again.err = ret.err
              /\ again.labels = ret.labels
              /\ again.offset_string = formatter.offset_string
    /\ op = "concise_format_ticks" =>
          LET again == ConciseFormatTicks(concise, axis, arg)
          IN  /\ again.err = ret.err
              /\ again.labels = ret.labels
              /\ again.offset_str = concise.offset_str

\* a call of the explicit formatter that applied an offset and stored its
\* string, and in another behaviour one of the concise formatter
C23_Witness ==
    \/ /\ op = "format_ticks"
       /\ ret.err = ""
       /\ ret.applied
       /\ Len(ret.labels) = 2
       /\ formatter.offset_string # <<>>
    \/ /\ op = "concise_format_ticks"
       /\ ret.err = ""
       /\ Len(ret.labels) = 2
       /\ concise.offset_str # <<>>

(***************************************************************************)
(* TimedeltaConverter and ConciseTimedeltaConverter.  Objects a converter  *)
(* creates are numbered in the order of their creation; the locator and    *)
(* the formatter of the model are the ones the last axisinfo call returned.*)
(***************************************************************************)
MaxAxisinfo == 2

\* TimedeltaConverter.__init__
ConverterInit == [NoConverter EXCEPT !.kind = "default"]

\* ConciseTimedeltaConverter.__init__
ConciseConverterInit(formats, offset_formats, show_offset) ==
    [kind |-> "concise", formats |-> formats,
     offset_formats |-> offset_formats, show_offset |-> show_offset,
     made |-> 0]

\* a ConciseTimedeltaFormatter built without the converter's customisation
AxisinfoConciseDefaults(cv) == ConciseInit("auto", NoTable, NoTable, TRUE)

\* majfmt of ConciseTimedeltaConverter.axisinfo
AxisinfoConcise(cv) ==
    ConciseInit("auto", cv.formats, cv.offset_formats, cv.show_offset)

\* majfmt of TimedeltaConverter.axisinfo
AxisinfoAuto(cv) == AutoFmtInit("auto", FmtDayHM)

\* units.AxisInfo(majloc=majloc, majfmt=majfmt, label='',
\*                default_limits=(datemin, datemax))
AxisInfo(majloc, majfmt) ==
    [err |-> "", majloc |-> majloc, majfmt |-> majfmt, label |-> <<>>,
     default_limits |-> <<OneDay, TwoDays>>]

InitConverter ==
    /\ intervald = DefaultIntervald
    /\ maxticks = DefaultMaxticks
    /\ minticks = DefaultMinticks
    /\ freq = OneDay
    /\ located = "none"
    /\ fixed = NoFixed
    /\ formatter = NoFormatter
    /\ axis = NoAxis
    /\ concise = NoConcise
    /\ autofmt = NoAutoFmt
    /\ converter = NoConverter
    /\ host = NativeHost
    /\ timple = NoTimple
    /\ op = "init"
    /\ arg = <<>>
    /\ ret = <<>>

\* TimedeltaConverter()
ConverterConstruct ==
    /\ converter.kind = "none"
    /\ converter' = ConverterInit
    /\ op' = "converter_init"
    /\ arg' = <<>>
    /\ ret' = <<>>
    /\ UNCHANGED <<autoVars, fixed, fmtVars, autofmt, host, timple>>

\* ConciseTimedeltaConverter(formats, offset_formats, show_offset)
ConciseConverterConstruct(formats, offset_formats, show_offset) ==
    /\ converter.kind = "none"
    /\ converter' = ConciseConverterInit(formats, offset_formats, show_offset)
    /\ op' = "converter_init"
    /\ arg' = <<formats, offset_formats, show_offset>>
    /\ ret' = <<>>
    /\ UNCHANGED <<autoVars, fixed, fmtVars, autofmt, host, timple>>

\* TimedeltaConverter.axisinfo(unit, axis)
Axisinfo ==
    /\ converter.kind = "default"
    /\ converter.made + 2 <= 2 * MaxAxisinfo
    /\ intervald' = DefaultIntervald
    /\ maxticks' = DefaultMaxticks
    /\ minticks' = DefaultMinticks
    /\ freq' = OneDay
    /\ located' = "none"
    /\ autofmt' = AxisinfoAuto(converter)
    /\ converter' = [converter EXCEPT !.made = @ + 2]
    /\ op' = "axisinfo"
    /\ arg' = <<>>
    /\ ret' = AxisInfo(converter.made + 1,
                       [id |-> converter.made + 2, kind |-> "auto",
                        locator |-> converter.made + 1])
    /\ UNCHANGED <<fixed, fmtVars, host, timple>>

\* ConciseTimedeltaConverter.axisinfo(unit, axis): the locator is created
\* first, then the formatter, whose constructor may raise
ConciseAxisinfo ==
    /\ converter.kind = "concise"
    /\ converter.made + 2 <= 2 * MaxAxisinfo
    /\ \E c \in {AxisinfoConcise(converter)} :
        IF c.state = "constructed"
        THEN /\ intervald' = DefaultIntervald
             /\ maxticks' = DefaultMaxticks
             /\ minticks' = DefaultMinticks
             /\ freq' = OneDay
             /\ located' = "none"
             /\ concise' = c
             /\ converter' = [converter EXCEPT !.made = @ + 2]
             /\ ret' = AxisInfo(converter.made + 1,
                                [id |-> converter.made + 2,
                                 kind |-> "concise",
                                 locator |-> converter.made + 1])
        ELSE /\ converter' = [converter EXCEPT !.made = @ + 1]
             /\ ret' = [err |-> c.state]
             /\ UNCHANGED <<autoVars, concise>>
    /\ op' = "axisinfo"
    /\ arg' = <<>>
    /\ UNCHANGED <<fixed, formatter, axis, autofmt, host, timple>>

NextConverter ==
    \/ ConverterConstruct
    \/ \E formats \in FormatsArgs, offset_formats \in OffsetFormatsArgs,
          show_offset \in BOOLEAN :
            ConciseConverterConstruct(formats, offset_formats, show_offset)
    \/ Axisinfo
    \/ ConciseAxisinfo
    \/ \E view \in ConciseViews : converter.made > 0 /\ Call(view)
    \/ \E values \in ConciseTicks : ConciseFormatTicksCall(values)
    \/ \E k \in EditedScales : EditScaled(k, FmtMS)

SpecConverter == InitConverter /\ [][NextConverter]_vars

\* C24: every axisinfo call returns a newly constructed AutoTimedeltaLocator
\* and a newly constructed formatter bound to that locator
\* (AutoTimedeltaFormatter for the default converter,
\* ConciseTimedeltaFormatter for the concise one) with default limits of
\* 1 day to 2 days; the concise converter passes formats, offset_formats and
\* show_offset to the formatter, and axisinfo succeeds for every
\* customisation the formatter accepts.
C24_ConverterFacade ==
    [][op' = "axisinfo" =>
        /\ ConciseInit("auto", converter.formats, converter.offset_formats,
                       converter.show_offset).state = "constructed"
              => ret'.err = ""
        /\ ret'.err = "" =>
              /\ ret'.majloc > converter.made
              /\ ret'.majfmt.id > converter.made
              /\ ret'.majfmt.locator = ret'.majloc
              /\ ret'.default_limits = <<Td(1, 0, 0), Td(2, 0, 0)>>
              /\ <<intervald', maxticks', minticks', freq', located'>>
                    = <<DefaultIntervald, DefaultMaxticks, DefaultMinticks,
                        Td(1, 0, 0), "none">>
              /\ converter.kind = "default" =>
                    /\ ret'.majfmt.kind = "auto"
                    /\ autofmt'.locator = "auto"
                    /\ autofmt'.scaled = AutoFmtDefaultScaled
              /\ converter.kind = "concise" =>
                    /\ ret'.majfmt.kind = "concise"
                    /\ concise'.locator = "auto"
                    /\ concise'.offset_str = <<>>
                    /\ concise'.show_offset = converter.show_offset
                    /\ concise'.formats =
                          IF converter.formats.given
                             /\ converter.formats.table # <<>>
                          THEN converter.formats.table
                          ELSE ConciseDefaultFormats
                    /\ concise'.offset_formats =
                          IF converter.offset_formats.given
                             /\ converter.offset_formats.table # <<>>
                          THEN converter.offset_formats.table
                          ELSE ConciseDefaultOffsetFormats]_vars

\* the second axisinfo call of a concise converter with its own offset
\* table and show_offset false
C24_Witness ==
    /\ op = "axisinfo"
    /\ ret.err = ""
    /\ ret.majloc = 3
    /\ converter.kind = "concise"
    /\ converter.offset_formats = Table(NoOffsetFormats)
    /\ ~converter.show_offset
    /\ concise.offset_formats = NoOffsetFormats
    /\ ~concise.show_offset

(***************************************************************************)
(* Timple: the patches it applies to the host and their reverts.  A host   *)
(* function is the sequence of its wrappers, outermost first, ending with  *)
(* the host's own function.                                                *)
(***************************************************************************)
MaxEnable == 2

\* kinds of value handed to _is_natively_supported
ValueKinds == {"timedelta", "number", "datetime"}

\* the function get_patched_is_natively_supported / get_patched_date2num
\* returns: a wrapper around the function in place when the patch is made
Patched(f) == <<"patched">> \o f

\* units._is_natively_supported(x) as the host function f computes it
RECURSIVE IsNativelySupported(_, _)
IsNativelySupported(f, x) ==
    IF Head(f) = "patched"
    THEN IF x = "timedelta" THEN FALSE ELSE IsNativelySupported(Tail(f), x)
    ELSE x \in {"timedelta", "number"}

\* Timple.__init__
TimpleInit(conv) ==
    IF conv \notin {"default", "auto", "concise"}
    THEN [NoTimple EXCEPT !.state = "ValueError"]
    ELSE [state |-> "constructed", converter |-> conv, revert_funcs |-> <<>>]

\* conv_type of _add_converters
ConvType(t, h) ==
    IF t.converter = "default"
    THEN IF h.date_converter \in {"auto", "concise"}
         THEN h.date_converter ELSE "auto"
    ELSE t.converter

\* only registry[np.timedelta64] = conv_inst
RegisterNumpyOnly(registry, conv_inst) ==
    [registry EXCEPT !["np.timedelta64"] = conv_inst]

\* registry[np.timedelta64] = conv_inst; registry[datetime.timedelta] =
\* conv_inst
Register(registry, conv_inst) ==
    [registry EXCEPT !["np.timedelta64"] = conv_inst,
                     !["datetime.timedelta"] = conv_inst]

\* enable: the host and the revert functions as the call leaves them; the
\* n-th converter instance of the program is numbered n
EnableResult(t, h, pd_nat_dates_support, n) ==
    LET units == [kind |-> "units", orig_func |-> h.is_natively_supported]
        convs == [kind |-> "converters", orig_func |-> <<>>]
        dates == [kind |-> "date2num", orig_func |-> h.date2num]
        conv_inst == [kind |-> ConvType(t, h), id |-> n]
    IN  [host |->
            [h EXCEPT !.is_natively_supported = Patched(@),
                      !.registry = Register(@, conv_inst),
                      !.date2num = IF pd_nat_dates_support THEN Patched(@)
                                   ELSE @],
         revert_funcs |->
            t.revert_funcs \o <<units, convs>>
                \o (IF pd_nat_dates_support THEN <<dates>> ELSE <<>>)]

\* one revert function called on host h: the host it leaves, or the error
\* of del on a key that is not in the registry
Revert(h, r) ==
    CASE r.kind = "units" ->
            [err |-> "",
             host |-> [h EXCEPT !.is_natively_supported = r.orig_func]]
      [] r.kind = "date2num" ->
            [err |-> "", host |-> [h EXCEPT !.date2num = r.orig_func]]
      [] r.kind = "converters" ->
            IF h.registry["np.timedelta64"] = Absent
            THEN [err |-> "KeyError", host |-> h]
            ELSE IF h.registry["datetime.timedelta"] = Absent
            THEN [err |-> "KeyError",
                  host |-> [h EXCEPT !.registry["np.timedelta64"] = Absent]]
            ELSE [err |-> "",
                  host |-> [h EXCEPT !.registry =
                                [k \in PatchTypes |-> Absent]]]

\* for revert in self._revert_funcs: revert()
RECURSIVE DisableResult(_, _)
DisableResult(h, funcs) ==
    IF funcs = <<>> THEN [err |-> "", host |-> h]
    ELSE LET r == Revert(h, Head(funcs))
         IN  IF r.err # "" THEN r ELSE DisableResult(r.host, Tail(funcs))

\* the number of enable calls made on t
Enabled(t) ==
    Cardinality({i \in DOMAIN t.revert_funcs :
                    t.revert_funcs[i].kind = "units"})

(***************************************************************************)
(* Timple on a host: inputs and operations.                                *)
(***************************************************************************)
ConverterArgs == {"default", "auto", "concise", "other"}

\* rcParams['date.converter'], "missing" for a host without the option
RcDateConverters == {"auto", "concise", "missing"}

InitTimple ==
    /\ intervald = DefaultIntervald
    /\ maxticks = DefaultMaxticks
    /\ minticks = DefaultMinticks
    /\ freq = OneDay
    /\ located = "none"
    /\ fixed = NoFixed
    /\ formatter = NoFormatter
    /\ axis = NoAxis
    /\ concise = NoConcise
    /\ autofmt = NoAutoFmt
    /\ converter = NoConverter
    /\ host \in {[NativeHost EXCEPT !.date_converter = c] :
                    c \in RcDateConverters}
    /\ timple = NoTimple
    /\ op = "init"
    /\ arg = <<>>
    /\ ret = <<>>

\* Timple(mpl, converter)
TimpleConstruct(conv) ==
    /\ timple.state = "none"
    /\ timple' = TimpleInit(conv)
    /\ op' = "timple_init"
    /\ arg' = conv
    /\ ret' = timple'.state
    /\ UNCHANGED <<autoVars, fixed, fmtVars, autofmt, converter, host>>

\* tmpl.enable(pd_nat_dates_support)
Enable(pd_nat_dates_support) ==
    /\ timple.state = "constructed"
    /\ Enabled(timple) < MaxEnable
    /\ \E r \in {EnableResult(timple, host, pd_nat_dates_support,
                              Enabled(timple) + 1)} :
        /\ host' = r.host
        /\ timple' = [timple EXCEPT !.revert_funcs = r.revert_funcs]
    /\ op' = "enable"
    /\ arg' = pd_nat_dates_support
    /\ ret' = [err |-> ""]
    /\ UNCHANGED <<autoVars, fixed, fmtVars, autofmt, converter>>

\* tmpl.disable()
Disable ==
    /\ timple.state = "constructed"
    /\ \E r \in {DisableResult(host, timple.revert_funcs)} :
        /\ host' = r.host
        /\ ret' = [err |-> r.err]
    /\ op' = "disable"
    /\ arg' = <<>>
    /\ UNCHANGED <<autoVars, fixed, fmtVars, autofmt, converter, timple>>

\* matplotlib.units._is_natively_supported(x)
IsNativelySupportedCall(x) ==
    /\ op' = "is_natively_supported"
    /\ arg' = x
    /\ ret' = IsNativelySupported(host.is_natively_supported, x)
    /\ UNCHANGED <<autoVars, fixed, fmtVars, extVars>>

NextTimple ==
    \/ \E conv \in ConverterArgs : TimpleConstruct(conv)
    \/ \E pd_nat_dates_support \in BOOLEAN : Enable(pd_nat_dates_support)
    \/ Disable
    \/ \E x \in ValueKinds : IsNativelySupportedCall(x)

SpecTimple == InitTimple /\ [][NextTimple]_vars

(***************************************************************************)
(* Claims about Timple (SpecTimple).                                       *)
(***************************************************************************)
\* the host as it is before any patch, whatever its rcParams
Original(h) ==
    /\ h.is_natively_supported = <<"native">>
    /\ h.date2num = <<"native">>
    /\ \A k \in PatchTypes : h.registry[k] = Absent

\* C25: before enable, timedelta values are natively supported and neither
\* timedelta type is in the unit registry; after enable, timedelta values
\* are not natively supported and both types are registered with the same
\* converter instance; after a following disable the host is back in the
\* state it had before enable.
C25_EnableDisable ==
    [][/\ (op' = "enable" /\ timple.revert_funcs = <<>>) =>
            /\ IsNativelySupported(host.is_natively_supported, "timedelta")
            /\ \A k \in PatchTypes : host.registry[k] = Absent
       /\ op' = "enable" =>
            /\ ~IsNativelySupported(host'.is_natively_supported, "timedelta")
            /\ \A k \in PatchTypes : host'.registry[k] # Absent
            /\ host'.registry["np.timedelta64"]
                  = host'.registry["datetime.timedelta"]
       /\ (op = "enable" /\ Enabled(timple) = 1 /\ op' = "disable") =>
            /\ ret'.err = ""
            /\ Original(host')
            /\ IsNativelySupported(host'.is_natively_supported, "timedelta")
      ]_vars

\* enable(pd_nat_dates_support=True) and the disable that follows it
C25_Witness ==
    /\ op = "disable"
    /\ ret.err = ""
    /\ Len(timple.revert_funcs) = 3
    /\ Original(host)

\* C26: after any sequence of enable and disable calls on one Timple
\* instance that ends with disable, the host is in its original state and no
\* disable call raises, enable called twice before disable and disable
\* called twice in a row included.
C26_DisableRestores ==
    [][op' = "disable" => (ret'.err = "" /\ Original(host'))]_vars

(***************************************************************************)
(* AutoTimedeltaLocator: the two tick entry points.  tick_values hands its *)
(* float bounds to get_locator as they are.                                *)
(***************************************************************************)
\* timedelta2num on a float x >= 0: np.asarray gives a float64 array, which
\* astype('timedelta64[us]') truncates to a whole number of microseconds
Timedelta2numOfFloat(x) == Td64ToOrdinalf(Td(0, 0, x.days))

\* get_locator(vmin, vmax) on float day counts
GetLocatorOfFloats(vmin, vmax, mt, tbl, mx) ==
    LocatorForDelta(
        Timedelta2numOfFloat(IF TdLess(vmax, vmin)
                             THEN TdNeg(TdSub(vmax, vmin))
                             ELSE TdSub(vmax, vmin)),
        mt, tbl, mx)

\* locator.tick_values(vmin, vmax)
TickValuesCall(vmin, vmax) ==
    \E loc \in {GetLocatorOfFloats(vmin, vmax, minticks, intervald,
                                   maxticks)} :
        /\ freq' = loc.freq
        /\ located' = loc.base
        /\ op' = "tick_values"
        /\ arg' = <<vmin, vmax>>
        /\ ret' = [base |-> loc.base, interval |-> loc.interval]
        /\ UNCHANGED <<extVars, intervald, maxticks, minticks, fixed, fmtVars>>

NextTicks ==
    \/ \E view \in ViewIntervals : Call(view)
    \/ \E view \in ViewIntervals : TickValuesCall(view[1], view[2])

SpecTicks == InitAuto /\ [][NextTicks]_vars

\* C27: tick_values(vmin, vmax) selects the same unit and interval and
\* records the same unit state as the parameterless call made with the view
\* interval set to (vmin, vmax); the span is the day count |vmax - vmin|,
\* and a reversed interval gives the selection of the ordered one.
C27_EntryPointsAgree ==
    op = "tick_values" =>
        LET t == ViewlimToTd(arg)
            loc == GetLocator(t[1], t[2], minticks, intervald, maxticks)
        IN  /\ ret.base = loc.base
            /\ ret.interval = loc.interval
            /\ freq = loc.freq
            /\ loc.tdelta = TdAbs(TdSub(arg[2], arg[1]))

(***************************************************************************)
(* TimedeltaFormatter whose format attributes are assigned after           *)
(* construction.                                                           *)
(***************************************************************************)
\* formatter.fmt = fmt
SetFmt(fmt) ==
    /\ formatter.state = "constructed"
    /\ formatter' = [formatter EXCEPT !.fmt = fmt]
    /\ op' = "set_fmt"
    /\ arg' = fmt
    /\ ret' = <<>>
    /\ UNCHANGED <<extVars, autoVars, fixed, axis, concise>>

\* formatter.offset_fmt = offset_fmt
SetOffsetFmt(offset_fmt) ==
    /\ formatter.state = "constructed"
    /\ formatter' = [formatter EXCEPT !.offset_fmt = offset_fmt]
    /\ op' = "set_offset_fmt"
    /\ arg' = offset_fmt
    /\ ret' = <<>>
    /\ UNCHANGED <<extVars, autoVars, fixed, axis, concise>>

NextFormatterAttrs ==
    \/ NextFormatter
    \/ \E fmt \in TickFmts : SetFmt(fmt)
    \/ \E offset_fmt \in OffsetFmts \ {NoFmt} : SetOffsetFmt(offset_fmt)

SpecFormatterAttrs == InitFormatter /\ [][NextFormatterAttrs]_vars

ConciseDefaultFmt == <<"%", "d", " ", "%", "d", "a", "y", "s">>

\* TimedeltaFormatter.__call__(x, pos)
FormatterCallOne(x) ==
    /\ formatter.state = "constructed"
    /\ op' = "formatter_call"
    /\ arg' = x
    /\ ret' = Strftdnum(x, formatter.fmt)
    /\ UNCHANGED <<autoVars, fixed, fmtVars, extVars>>

\* ConciseTimedeltaFormatter.__call__(x, pos): the call of a
\* TimedeltaFormatter built on defaultfmt
ConciseCallOne(x) ==
    /\ concise.state = "constructed"
    /\ op' = "concise_call"
    /\ arg' = x
    /\ ret' = Strftdnum(x, FormatterInit(ConciseDefaultFmt, NoUnit, NoFmt).fmt)
    /\ UNCHANGED <<autoVars, fixed, fmtVars, extVars>>

NextCalls ==
    \/ \E fmt \in TickFmts : FormatterConstruct(fmt, NoUnit, NoFmt)
    \/ \E locator \in LocatorArgs, show_offset \in BOOLEAN :
            ConciseConstruct(locator, NoTable, NoTable, show_offset)
    \/ \E locator \in LocatorArgs, defaultfmt \in DefaultFmtArgs :
            AutoFmtConstruct(locator, defaultfmt)
    \/ \E view \in ConciseViews : Call(view)
    \/ \E x \in CallCoords : FormatterCallOne(x)
    \/ \E x \in CallCoords : ConciseCallOne(x)
    \/ \E x \in CallCoords : AutoFmtCall(x)

SpecCalls == InitFormatter /\ [][NextCalls]_vars

\* C29: each of the three formatters supports the single-value call: for
\* every finite coordinate a TimedeltaFormatter constructed with a valid
\* format and defaults otherwise, an AutoTimedeltaFormatter and a
\* ConciseTimedeltaFormatter return a label and do not raise.
C29_SingleValueFormat ==
    /\ (op = "formatter_call" /\ formatter.fmt = FmtHoursMinutes) =>
            ret.err = "" /\ ret.str # <<>>
    /\ op = "autofmt_call" => ret.err = "" /\ ret.str # <<>>
    /\ op = "concise_call" => ret.err = "" /\ ret.str # <<>>

(***************************************************************************)
(* Claims about the selection as a function of the span (Spec).            *)
(***************************************************************************)
\* the position of a unit in base_units, coarsest first
UnitPos(b) == CHOOSE i \in 1..Len(base_units) : base_units[i] = b

\* every interval list of the table is ascending
AscendingTables ==
    \A b \in BaseUnitSet :
        \A i \in 1..(Len(intervald[b]) - 1) :
            intervald[b][i] < intervald[b][i + 1]

\* what the locator selects for span s with its current tables
SelectionFor(s) == LocatorForDelta(s, minticks, intervald, maxticks)

\* C30: unit and interval selection is monotone in the span: with fixed
\* tables whose interval lists are ascending, a wider span never selects a
\* finer base unit than a narrower span does, and within one selected unit a
\* wider span never selects a smaller interval.
C30_MonotoneSelection ==
    (op = "locate" /\ AscendingTables) =>
        \A s \in Spans :
            ~TdLess(arg, s) =>
                /\ UnitPos(ret.base) <= UnitPos(SelectionFor(s).base)
                /\ ret.base = SelectionFor(s).base =>
                        SelectionFor(s).interval <= ret.interval

\* a locate call that selected hours with an interval above the smallest,
\* where narrower spans select hours with a smaller interval and others a
\* finer unit
C30_Witness ==
    /\ op = "locate"
    /\ AscendingTables
    /\ ret.base = "hours"
    /\ ret.interval > 1
    /\ \E s \in Spans :
            /\ TdLess(s, arg)
            /\ SelectionFor(s).base = "hours"
            /\ SelectionFor(s).interval < ret.interval
    /\ \E s \in Spans :
            /\ TdLess(s, arg)
            /\ SelectionFor(s).base = "minutes"

====
